---- MODULE Spec2Model ----
(***************************************************************************)
(* Model of sertit/files.py: the archive extractor (extract_file,          *)
(* extract_files), the archive packer (archive, add_to_zip) and the        *)
(* filesystem helpers they call (remove, copy), over an abstract           *)
(* filesystem.                                                             *)
(*                                                                         *)
(* A string is a sequence of tokens; "/" and "." are tokens of their own,  *)
(* so that suffixes, prefixes, splitting and substring tests are computed  *)
(* on the text as the Python code computes them.                           *)
(***************************************************************************)
EXTENDS Integers, Sequences, FiniteSets, TLC

(***************************************************************************)
(* Strings                                                                 *)
(***************************************************************************)
SEP == "/"
DOT == "."

\* s in t  (Python: substring test on str)
IsSubstr(s, t) ==
    \E i \in 0..(Len(t) - Len(s)) : SubSeq(t, i + 1, i + Len(s)) = s

\* t.startswith(s)
StartsWith(t, s) == Len(s) <= Len(t) /\ SubSeq(t, 1, Len(s)) = s

\* t.endswith(s)
EndsWith(t, s) == Len(s) <= Len(t) /\ SubSeq(t, Len(t) - Len(s) + 1, Len(t)) = s

\* t.find(c) + 1 : index of the first token c of t, 0 when there is none
FirstIndex(t, c) ==
    IF \E i \in 1..Len(t) : t[i] = c
    THEN CHOOSE i \in 1..Len(t) : t[i] = c /\ \A j \in 1..(i - 1) : t[j] # c
    ELSE 0

\* t.rfind(c) + 1 : index of the last token c of t, 0 when there is none
LastIndex(t, c) ==
    IF \E i \in 1..Len(t) : t[i] = c
    THEN CHOOSE i \in 1..Len(t) : t[i] = c /\ \A j \in (i + 1)..Len(t) : t[j] # c
    ELSE 0

\* t.split(c)[0]
SplitHead(t, c) ==
    IF FirstIndex(t, c) = 0 THEN t ELSE SubSeq(t, 1, FirstIndex(t, c) - 1)

\* t.split(c) : the pieces of t between the tokens c (empty pieces kept)
RECURSIVE Split(_, _)
Split(t, c) ==
    IF FirstIndex(t, c) = 0 THEN <<t>>
    ELSE <<SubSeq(t, 1, FirstIndex(t, c) - 1)>>
         \o Split(SubSeq(t, FirstIndex(t, c) + 1, Len(t)), c)

\* os.path.join(a, b) / PurePath.joinpath for a relative b
Join(a, b) == a \o <<SEP>> \o b

\* os.path.basename(p) / PurePath.name
BaseName(p) == SubSeq(p, LastIndex(p, SEP) + 1, Len(p))

\* os.path.dirname(p) / PurePath.parent
Parent(p) ==
    IF LastIndex(p, SEP) = 0 THEN <<>> ELSE SubSeq(p, 1, LastIndex(p, SEP) - 1)

\* p is q or lies below q
Under(p, q) == p = q \/ StartsWith(p, q \o <<SEP>>)

\* PurePath.suffix : the last dot of the name and what follows it, "" when the
\* name has no dot, starts with its only dot or ends with a dot
Suffix(p) ==
    LET n == BaseName(p)
        i == LastIndex(n, DOT)
    IN  IF 1 < i /\ i < Len(n) THEN SubSeq(n, i, Len(n)) ELSE <<>>

\* PurePath.suffixes : every dot-led piece of the name after the first one
Suffixes(p) ==
    LET n == BaseName(p)
        parts == Split(n, DOT)
    IN  IF EndsWith(n, <<DOT>>) \/ Len(n) = 0 THEN <<>>
        ELSE [k \in 1..(Len(parts) - 1) |-> <<DOT>> \o parts[k + 1]]

\* PurePath.stem
Stem(p) ==
    LET n == BaseName(p)
        i == LastIndex(n, DOT)
    IN  IF 1 < i /\ i < Len(n) THEN SubSeq(n, 1, i - 1) ELSE n

\* os.path.splitext(p)[0] : the path without the last extension of its name
SplitExtRoot(p) ==
    LET n == BaseName(p)
        i == LastIndex(n, DOT)
    IN  IF 1 < i THEN SubSeq(p, 1, Len(p) - Len(n) + i - 1) ELSE p

TARGZ == <<DOT, "tar", DOT, "gz">>

\* sertit.path.get_filename : the file name without its extension, ".tar.gz"
\* being one extension
get_filename(p) ==
    IF EndsWith(BaseName(p), TARGZ)
    THEN SubSeq(BaseName(p), 1, Len(BaseName(p)) - Len(TARGZ))
    ELSE Stem(p)

(***************************************************************************)
(* The filesystem: the set of directories and the content of every file.   *)
(* A file holds plain bytes (kind "data") or an archive (kind "arch"): the *)
(* container format it was written in, its members in listing order and    *)
(* the index of the first member that cannot be read back (0: none).       *)
(* An archive of format "junk" is a file that is no archive at all.        *)
(***************************************************************************)
Data(b) == [kind |-> "data", data |-> b, fmt |-> "none", members |-> <<>>, badAt |-> 0]
Arch(f, ms, bad) == [kind |-> "arch", data |-> 0, fmt |-> f, members |-> ms, badAt |-> bad]
Member(n, d, b) == [name |-> n, isdir |-> d, data |-> b]

EmptyFs == [dirs |-> {}, files |-> <<>>]

IsDir(fs, p) == p \in fs.dirs
IsFile(fs, p) == p \in DOMAIN fs.files
Exists(fs, p) == IsDir(fs, p) \/ IsFile(fs, p)

\* p and every directory above it
Ancestors(p) ==
    {SubSeq(p, 1, i - 1) : i \in {j \in 1..Len(p) : p[j] = SEP}} \cup {p}

Ok(fs) == [fs |-> fs, err |-> ""]
Fail(fs, e) == [fs |-> fs, err |-> e]

\* the value of a step whose intermediate result is computed once
Once(S) == CHOOSE x \in S : TRUE

\* os.makedirs(p, exist_ok=True)
MakeDirs(fs, p) ==
    IF \E q \in Ancestors(p) : IsFile(fs, q)
    THEN Fail(fs, "OSError")
    ELSE Ok([fs EXCEPT !.dirs = @ \cup Ancestors(p)])

\* open(p, "wb").write(content)
WriteFile(fs, p, content) ==
    IF IsDir(fs, p) \/ (Parent(p) # <<>> /\ ~IsDir(fs, Parent(p)))
    THEN Fail(fs, "OSError")
    ELSE Ok([fs EXCEPT !.files =
                [q \in (DOMAIN fs.files) \cup {p} |->
                    IF q = p THEN content ELSE fs.files[q]]])

\* shutil.rmtree(p) on a directory, Path.unlink() on a file
Delete(fs, p) ==
    [dirs |-> {d \in fs.dirs : ~Under(d, p)},
     files |-> [q \in {f \in DOMAIN fs.files : ~Under(f, p)} |-> fs.files[q]]]

\* the entries of fs below directory p, as paths relative to p
Below(fs, p) ==
    {SubSeq(q, Len(p) + 2, Len(q)) :
        q \in {x \in fs.dirs \cup DOMAIN fs.files : x # p /\ Under(x, p)}}

\* shutil.copytree(src, dst) on a directory, shutil.copy2(src, dst) on a file
CopyTree(fs, src, dst) ==
    IF Exists(fs, dst) \/ \E q \in Ancestors(dst) : IsFile(fs, q)
    THEN Fail(fs, "OSError")
    ELSE LET made == fs.dirs \cup Ancestors(dst)
                     \cup {Join(dst, r) : r \in {x \in Below(fs, src) : IsDir(fs, Join(src, x))}}
             copied == {x \in Below(fs, src) : IsFile(fs, Join(src, x))}
         IN  Ok([dirs |-> made,
                 files |-> [q \in (DOMAIN fs.files) \cup {Join(dst, x) : x \in copied} |->
                              IF \E x \in copied : q = Join(dst, x)
                              THEN fs.files[Join(src, CHOOSE x \in copied : q = Join(dst, x))]
                              ELSE fs.files[q]]])

CopyFile(fs, src, dst) ==
    WriteFile(fs, IF IsDir(fs, dst) THEN Join(dst, BaseName(src)) ELSE dst, fs.files[src])

(***************************************************************************)
(* State                                                                   *)
(***************************************************************************)
VARIABLES
    fs,          \* the filesystem
    hashOrder,   \* the iteration order this process gives to a set of names
    inDocker,    \* misc.in_docker() in this environment
    undeletable, \* the paths the operating system refuses to delete
    last,        \* the last call: its arguments, outcome and the filesystem before it
    prev,        \* the call before the last one: its arguments and outcome
    ncalls,      \* number of calls made so far
    batch,       \* the extract_files call in progress
    read,        \* the last read_archived_file call: its arguments and outcome
    json,        \* the value given to save_json, the file written and the value read back
    loggers      \* the handlers, the logger given to logs.py and the last call on it

vars == <<fs, hashOrder, inDocker, undeletable, last, prev, ncalls, batch, read, json, loggers>>

(***************************************************************************)
(* remove and copy                                                         *)
(***************************************************************************)
\* remove(path): nothing for a missing path; rmtree / unlink otherwise, an
\* OSError of the operating system being logged and swallowed
remove(f, p) ==
    IF ~Exists(f, p) THEN f
    ELSE IF \E q \in undeletable : Under(q, p) THEN f
    ELSE Delete(f, p)

\* (mutant) the OSError of the operating system is raised again
Reraised(g) == [fs |-> g, err |-> "OSError"]

\* except OSError: LOGGER.debug(...): the failure is logged and the call
\* returns
Swallowed(g) == [fs |-> g, err |-> ""]

\* what a refused shutil.rmtree(p) may leave behind: p, the paths the
\* operating system refuses to delete and what is above them stay, any of the
\* other entries below p may be gone already, a directory with all it holds
RefusedOutcomes(f, p) ==
    LET kept == {q \in f.dirs \cup DOMAIN f.files :
                    ~Under(q, p) \/ q = p \/ \E u \in undeletable : Under(u, q)}
        free == (f.dirs \cup DOMAIN f.files) \ kept
    IN  {[dirs |-> f.dirs \ gone,
          files |-> [q \in (DOMAIN f.files) \ gone |-> f.files[q]]] :
            gone \in {S \in SUBSET free : \A q \in S : \A r \in free : Under(r, q) => r \in S}}

\* every outcome of remove(path): the filesystem left and the error raised
RemoveOutcomes(f, p) ==
    IF ~Exists(f, p) THEN {Ok(f)}
    ELSE IF \E q \in undeletable : Under(q, p)
    THEN {Swallowed(g) : g \in RefusedOutcomes(f, p)}
    ELSE {Ok(Delete(f, p))}

\* copy(src, dst) for a local src: copytree for a directory, copy2 for a file,
\* nothing when src is neither; an IOError is raised again as IOError
copy(f, src, dst) ==
    IF IsDir(f, src) THEN CopyTree(f, src, dst)
    ELSE IF IsFile(f, src) THEN CopyFile(f, src, dst)
    ELSE Ok(f)

(***************************************************************************)
(* Archive libraries                                                       *)
(***************************************************************************)
ZipFormats == {"zip"}
TarFormats == {"tar", "gztar", "bztar", "xztar"}

\* zipfile.ZipFile(path, "r"): the error it raises, "" when it opens
ZipOpen(f, p) ==
    IF ~IsFile(f, p) THEN "FileNotFoundError"
    ELSE IF f.files[p].kind # "arch" \/ f.files[p].fmt \notin ZipFormats THEN "BadZipFile"
    ELSE ""

\* tarfile.open(path, "r"), transparent to the compression
TarOpen(f, p) ==
    IF ~IsFile(f, p) THEN "FileNotFoundError"
    ELSE IF f.files[p].kind # "arch" \/ f.files[p].fmt \notin TarFormats THEN "ReadError"
    ELSE ""

\* ZipInfo.filename: a directory entry ends with "/"
ZipName(m) == IF m.isdir THEN m.name \o <<SEP>> ELSE m.name

\* ZipFile.namelist()
namelist(a) == [i \in 1..Len(a.members) |-> ZipName(a.members[i])]

\* ZipFile._extract_member / TarFile._extract_member: member i of archive a
\* written below directory base; readErr is the library's read error
ExtractMember(f, a, i, base, readErr) ==
    LET m == a.members[i]
        target == Join(base, m.name)
    IN  Once({IF up.err # "" THEN up
              ELSE IF m.isdir
                   THEN IF IsDir(up.fs, target) THEN up
                        ELSE IF IsFile(up.fs, target) \/ ~IsDir(up.fs, Parent(target))
                             THEN Fail(up.fs, "OSError")
                             ELSE Ok([up.fs EXCEPT !.dirs = @ \cup {target}])
                   ELSE IF a.badAt = i THEN Fail(up.fs, readErr)
                        ELSE WriteFile(up.fs, target, Data(m.data)) :
                 up \in {IF Exists(f, Parent(target)) THEN Ok(f)
                         ELSE MakeDirs(f, Parent(target))}})

\* extractall(path=base, members=idx): the members of index idx[k], in order,
\* stopping at the first error
RECURSIVE ExtractAll(_, _, _, _, _, _)
ExtractAll(f, a, idx, k, base, readErr) ==
    IF k > Len(idx) THEN Ok(f)
    ELSE Once({IF r.err # "" THEN r
               ELSE ExtractAll(r.fs, a, idx, k + 1, base, readErr) :
                  r \in {ExtractMember(f, a, idx[k], base, readErr)}})

\* the indices i of 1..n with P[i], in increasing order
RECURSIVE Pick(_, _, _)
Pick(P, i, n) ==
    IF i > n THEN <<>>
    ELSE (IF P[i] THEN <<i>> ELSE <<>>) \o Pick(P, i + 1, n)

(***************************************************************************)
(* extract_file                                                            *)
(***************************************************************************)
ZIP == <<DOT, "zip">>
TAR == <<DOT, "tar">>
GZ == <<DOT, "gz">>

\* a listing of the set S (os.listdir / os.walk give no particular order)
RECURSIVE Listing(_)
Listing(S) ==
    IF S = {} THEN <<>>
    ELSE LET x == CHOOSE y \in S : TRUE IN <<x>> \o Listing(S \ {x})

\* list(set_of_names): the names of S in this process's iteration order
\* (the names hashOrder does not rank come after those it ranks)
ListOfSet(S) ==
    SelectSeq(hashOrder, LAMBDA x : x \in S)
    \o Listing({x \in S : \A i \in 1..Len(hashOrder) : hashOrder[i] # x})

\* tempfile.TemporaryDirectory(): a directory that did not exist
TmpDir(f) ==
    LET n == CHOOSE i \in 1..(Cardinality(f.dirs) + 1) : <<"tmp", ToString(i)>> \notin f.dirs
    IN  <<"tmp", ToString(n)>>

\* the outcome of a call: the filesystem it leaves, "ok" or the exception it
\* raises, the exception that one wraps, and the value returned
\* (mutant) a list is returned whatever the number of targets
ReturnList(f, single, paths) ==
    [fs |-> f, status |-> "ok", cause |-> "", single |-> FALSE, paths |-> paths]

Return(f, single, paths) ==
    [fs |-> f, status |-> "ok", cause |-> "", single |-> single, paths |-> paths]
Raise(f, e, c) ==
    [fs |-> f, status |-> e, cause |-> c, single |-> FALSE, paths |-> <<>>]

\* except tarfile.ReadError as ex: raise TypeError(...) from ex
WrapReadError(r, file_path) ==
    IF r.err = "ReadError"
    THEN [fs |-> r.fs, file_path |-> file_path, err |-> "TypeError", cause |-> "ReadError"]
    ELSE [fs |-> r.fs, file_path |-> file_path, err |-> r.err, cause |-> ""]

\* members = [name for name in arch.namelist() if extr_name in name]
ZipMembersOf(a, extr_name) ==
    Pick([i \in 1..Len(a.members) |-> IsSubstr(extr_name, namelist(a)[i])],
         1, Len(a.members))

\* members = arch.getmembers()
TarMembersOf(a) == [i \in 1..Len(a.members) |-> i]

\* the extraction of one target outside docker: straight into the output
ExtractDirect(st, a, extr_dir, output) ==
    LET isZip == EndsWith(st.file_path, ZIP)
        members == IF isZip THEN ZipMembersOf(a, BaseName(extr_dir)) ELSE TarMembersOf(a)
        tmp_extr_output == IF isZip THEN output ELSE extr_dir
    IN  Once({IF mk.err # "" THEN WrapReadError(mk, st.file_path)
              ELSE WrapReadError(
                      ExtractAll(mk.fs, a, members, 1, tmp_extr_output,
                                 IF isZip THEN "BadZipFile" ELSE "ReadError"),
                      st.file_path) :
                 mk \in {MakeDirs(st.fs, extr_dir)}})

\* the extraction of one target inside docker: the archive is copied to a
\* scratch directory, the target extracted there and copied back, and the
\* scratch directory removed when the with-block is left, also by an exception
ExtractInDocker(st, a, extr_dir, output) ==
    LET tmp_dir == TmpDir(st.fs)
        f0 == [st.fs EXCEPT !.dirs = @ \cup {tmp_dir}]
        file_path == Join(tmp_dir, BaseName(st.file_path))
        isZip == EndsWith(file_path, ZIP)
        tmp_extr_dir == Join(tmp_dir, BaseName(extr_dir))
        members == IF isZip THEN ZipMembersOf(a, BaseName(extr_dir)) ELSE TarMembersOf(a)
        tmp_extr_output == IF isZip THEN tmp_dir ELSE tmp_extr_dir
    IN  Once({[done EXCEPT !.fs = Delete(@, tmp_dir)] :
          done \in
            {IF cp.err # "" THEN [fs |-> cp.fs, file_path |-> st.file_path,
                                  err |-> cp.err, cause |-> ""]
             ELSE Once({IF mk.err # "" THEN WrapReadError(mk, file_path)
                        ELSE Once({IF ex.err # "" THEN WrapReadError(ex, file_path)
                                   ELSE WrapReadError(copy(ex.fs, tmp_extr_dir, extr_dir),
                                                      file_path) :
                                ex \in {ExtractAll(mk.fs, a, members, 1, tmp_extr_output,
                                           IF isZip THEN "BadZipFile" ELSE "ReadError")}}) :
                     mk \in {MakeDirs(cp.fs, tmp_extr_dir)}}) :
                cp \in {copy(f0, st.file_path, tmp_dir)}}})

\* the state of the loop after one target: misc.in_docker() answers the
\* same during the whole call
InMode(st, r) ==
    [fs |-> r.fs, file_path |-> r.file_path, err |-> r.err, cause |-> r.cause,
     docker |-> st.docker]

\* (mutant) an existing target is skipped only when it holds something
ExtractTargetSkipsFilled(st, a, extr_dir, output, overwrite) ==
    IF st.err # "" THEN st
    ELSE IF IsDir(st.fs, extr_dir) /\ (overwrite \/ Below(st.fs, extr_dir) # {})
         THEN IF overwrite
              THEN [st EXCEPT !.fs = remove(st.fs, extr_dir)]
              ELSE st
         ELSE Once({InMode(st, r) :
                       r \in {IF st.docker THEN ExtractInDocker(st, a, extr_dir, output)
                               ELSE ExtractDirect(st, a, extr_dir, output)}})

\* (mutant) an existing target is removed whether or not overwrite is asked
ExtractTargetAlwaysRemoves(st, a, extr_dir, output, overwrite) ==
    IF st.err # "" THEN st
    ELSE IF IsDir(st.fs, extr_dir)
         THEN [st EXCEPT !.fs = remove(st.fs, extr_dir)]
         ELSE Once({InMode(st, r) :
                       r \in {IF st.docker THEN ExtractInDocker(st, a, extr_dir, output)
                               ELSE ExtractDirect(st, a, extr_dir, output)}})

\* one turn of the loop over extr_dirs
ExtractTarget(st, a, extr_dir, output, overwrite) ==
    IF st.err # "" THEN st
    ELSE IF IsDir(st.fs, extr_dir)
         THEN IF overwrite
              THEN [st EXCEPT !.fs = remove(st.fs, extr_dir)]
              ELSE st
         ELSE Once({InMode(st, r) :
                       r \in {IF st.docker THEN ExtractInDocker(st, a, extr_dir, output)
                               ELSE ExtractDirect(st, a, extr_dir, output)}})

RECURSIVE ExtractLoop(_, _, _, _, _, _)
ExtractLoop(st, a, extr_dirs, k, output, overwrite) ==
    IF k > Len(extr_dirs) THEN st
    ELSE Once({ExtractLoop(nxt, a, extr_dirs, k + 1, output, overwrite) :
                  nxt \in {ExtractTarget(st, a, extr_dirs[k], output, overwrite)}})

\* extr_names of a zip: the first component of every member name, as a list
ZipTopNames(a) ==
    ListOfSet({SplitHead(namelist(a)[i], SEP) : i \in 1..Len(a.members)})

\* whether the name is handled as a zip, as a tar, or refused
IsZipName(file_path) == Suffix(file_path) = ZIP
IsTarName(file_path) == Suffix(file_path) = TAR \/ Suffixes(file_path) = <<TAR, GZ>>

\* extract_file on a path that is no directory: the archive is opened
\* according to its name and its targets are extracted one after the other
ExtractArchiveIn(docker, f, file_path, output, overwrite) ==
    IF ~IsZipName(file_path) /\ ~IsTarName(file_path) THEN Raise(f, "TypeError", "")
    ELSE LET openErr == IF IsZipName(file_path) THEN ZipOpen(f, file_path)
                        ELSE TarOpen(f, file_path)
         IN  IF openErr # "" THEN Raise(f, openErr, "")
             ELSE LET a == f.files[file_path]
                      extr_names == IF IsZipName(file_path) THEN ZipTopNames(a)
                                    ELSE <<get_filename(file_path)>>
                      extr_dirs == [k \in 1..Len(extr_names) |-> Join(output, extr_names[k])]
                  IN  Once({IF st.err # "" THEN Raise(st.fs, st.err, st.cause)
                            ELSE Return(st.fs, Len(extr_dirs) = 1, extr_dirs) :
                               st \in {ExtractLoop([fs |-> f, file_path |-> file_path,
                                                    err |-> "", cause |-> "",
                                                    docker |-> docker],
                                                   a, extr_dirs, 1, output, overwrite)}})

\* the same in this environment
ExtractArchive(f, file_path, output, overwrite) ==
    ExtractArchiveIn(inDocker, f, file_path, output, overwrite)

\* extract_file(file_path, output, overwrite) run on filesystem f in an
\* environment where misc.in_docker() answers docker
extract_file_in(docker, f, file_path, output, overwrite) ==
    IF IsDir(f, file_path) THEN Return(f, TRUE, <<file_path>>)
    ELSE ExtractArchiveIn(docker, f, file_path, output, overwrite)

\* (mutant) a directory is handled as any other path
extract_file_NoDirCheck(f, file_path, output, overwrite) ==
    ExtractArchive(f, file_path, output, overwrite)

\* extract_file(file_path, output, overwrite) run on filesystem f
extract_file(f, file_path, output, overwrite) ==
    IF IsDir(f, file_path) THEN Return(f, TRUE, <<file_path>>)
    ELSE ExtractArchive(f, file_path, output, overwrite)

(***************************************************************************)
(* archive and add_to_zip                                                  *)
(***************************************************************************)
SubDirs(f, d) == {q \in f.dirs : Parent(q) = d}
FilesIn(f, d) == {q \in DOMAIN f.files : Parent(q) = d}

\* (mutant) the walk does not descend into the sub-directories
WalkTopOnly(f, top) == IF \E q \in f.dirs : q = top THEN <<top>> ELSE <<>>

\* [root for root, _, _ in os.walk(top)]: top first, then the walk of each
\* of its sub-directories; nothing when top is no directory
RECURSIVE Walk(_, _)
RECURSIVE WalkEach(_, _, _)
Walk(f, top) ==
    IF ~IsDir(f, top) THEN <<>>
    ELSE <<top>> \o WalkEach(f, Listing(SubDirs(f, top)), 1)
WalkEach(f, ds, k) ==
    IF k > Len(ds) THEN <<>> ELSE Walk(f, ds[k]) \o WalkEach(f, ds, k + 1)

\* (mutant) the path relative to the folder itself, which loses its name
RelPathInFolder(p, base) ==
    LET n == IF base = <<>> THEN 0 ELSE Len(base) + 1
        k == CHOOSE i \in (n + 1)..(Len(p) + 1) :
                /\ i = Len(p) + 1 \/ p[i] = SEP
                /\ \A j \in (n + 1)..(i - 1) : p[j] # SEP
    IN  IF k > Len(p) THEN <<DOT>> ELSE SubSeq(p, k + 1, Len(p))

\* os.path.relpath(p, base) for p below base
RelPath(p, base) == IF base = <<>> THEN p ELSE SubSeq(p, Len(base) + 2, Len(p))

\* the members written for one directory of the walk: the directory itself,
\* then its files, named relative to base
WalkMembers(f, root, base) ==
    LET files == Listing(FilesIn(f, root))
    IN  <<Member(RelPath(root, base), TRUE, 0)>>
        \o [k \in 1..Len(files) |-> Member(RelPath(files[k], base), FALSE, f.files[files[k]].data)]

RECURSIVE FolderMembers(_, _, _, _)
FolderMembers(f, roots, k, base) ==
    IF k > Len(roots) THEN <<>>
    ELSE WalkMembers(f, roots[k], base) \o FolderMembers(f, roots, k + 1, base)

\* the extension shutil.make_archive gives to each format
ArchiveFormats == {"zip", "tar", "gztar", "bztar", "xztar"}
FormatExt(fmt) ==
    CASE fmt = "zip" -> ZIP
      [] fmt = "tar" -> TAR
      [] fmt = "gztar" -> TAR \o GZ
      [] fmt = "bztar" -> TAR \o <<DOT, "bz2">>
      [] fmt = "xztar" -> TAR \o <<DOT, "xz">>

\* shutil.make_archive(base_name, format, root_dir, base_dir): the archive
\* of root_dir/base_dir written to base_name plus the format's extension
make_archive(f, base_name, fmt, root_dir, base_dir) ==
    LET filename == base_name \o FormatExt(fmt)
        members == FolderMembers(f, Walk(f, Join(root_dir, base_dir)), 1, root_dir)
    IN  IF fmt \notin ArchiveFormats THEN Fail(f, "ValueError")
        ELSE Once({IF mk.err # "" THEN mk
                   ELSE WriteFile(mk.fs, filename, Arch(fmt, members, 0)) :
                      mk \in {IF Parent(filename) = <<>> \/ Exists(f, Parent(filename))
                              THEN Ok(f) ELSE MakeDirs(f, Parent(filename))}})

\* path.is_cloud_path(p): the paths of the remote store
CLOUD == <<"s3:">>
is_cloud_path(p) == Len(p) > 0 /\ p[1] = "s3:"

\* CloudPath.download_to(dst) of a remote directory: its content is written
\* into dst, which is returned
download_to(f, src, dst) ==
    LET sub == {x \in Below(f, src) : IsDir(f, Join(src, x))}
        fls == {x \in Below(f, src) : IsFile(f, Join(src, x))}
    IN  [dirs |-> f.dirs \cup {dst} \cup {Join(dst, x) : x \in sub},
         files |-> [q \in (DOMAIN f.files) \cup {Join(dst, x) : x \in fls} |->
                      IF \E x \in fls : q = Join(dst, x)
                      THEN f.files[Join(src, CHOOSE x \in fls : q = Join(dst, x))]
                      ELSE f.files[q]]]

\* the outcome of a packer call, with the scratch directories it created
Packed(f, e, paths, scratch) ==
    [fs |-> f, status |-> e, cause |-> "", single |-> e = "ok", paths |-> paths,
     scratch |-> scratch]

\* archive(folder_path, archive_path, fmt) run on filesystem f
archive(f, folder_path, archive_path, fmt) ==
    LET cloud == is_cloud_path(folder_path)
        tmp_dir == TmpDir(f)
        folder == IF cloud THEN tmp_dir ELSE folder_path
        archive_base == SplitExtRoot(archive_path)
        scratch == IF cloud THEN {tmp_dir} ELSE {}
    IN  Once({IF made.err # "" THEN Packed(made.fs, made.err, <<>>, scratch)
              ELSE Packed(IF cloud THEN Delete(made.fs, tmp_dir) ELSE made.fs,
                          "ok", <<archive_base \o FormatExt(fmt)>>, scratch) :
          made \in {Once({make_archive(f1, archive_base, fmt, Parent(folder), BaseName(folder)) :
                       f1 \in {IF cloud THEN download_to(f, folder_path, tmp_dir) ELSE f}})}})

\* one turn of the loop of add_to_zip over dirs_to_add; st holds the
\* filesystem, the members of the open zip, the error raised and the scratch
\* directories created
AddOne(st, dir_to_add_path) ==
    IF st.err # "" THEN st
    ELSE LET tmp == TmpDir(st.fs)
             f0 == [st.fs EXCEPT !.dirs = @ \cup {tmp}]
             isfile == IsFile(f0, dir_to_add_path)
         IN  Once({IF ex.status # "ok"
                   THEN [st EXCEPT !.fs = ex.fs, !.err = ex.status, !.cause = ex.cause,
                                   !.scratch = @ \cup {tmp}]
                   ELSE IF ~ex.single
                   THEN [st EXCEPT !.fs = ex.fs, !.err = "TypeError",
                                   !.scratch = @ \cup {tmp}]
                   ELSE [st EXCEPT !.fs = Delete(ex.fs, tmp),
                                   !.members = @ \o FolderMembers(ex.fs, Walk(ex.fs, ex.paths[1]),
                                                                   1, Parent(ex.paths[1])),
                                   !.scratch = @ \cup {tmp}] :
                      ex \in {IF isfile THEN extract_file(f0, dir_to_add_path, tmp, FALSE)
                              ELSE Return(f0, TRUE, <<dir_to_add_path>>)}})

RECURSIVE AddLoop(_, _, _)
AddLoop(st, dirs_to_add, k) ==
    IF k > Len(dirs_to_add) THEN st
    ELSE Once({AddLoop(nxt, dirs_to_add, k + 1) : nxt \in {AddOne(st, dirs_to_add[k])}})

\* (mutant) the zip is opened for writing, which empties it
ZipWriteOpen(f, zip_path) == Arch("zip", <<>>, 0)

\* zipfile.ZipFile(zip_path, "a"): the members already in the file, none
\* when the file is no zip (the zip is then appended to it)
ZipAppendOpen(f, zip_path) ==
    IF f.files[zip_path].kind = "arch" /\ f.files[zip_path].fmt \in ZipFormats
    THEN f.files[zip_path]
    ELSE Arch("zip", <<>>, 0)

\* with zipfile.ZipFile(zip_path, "a") as zip_file: the loop over
\* dirs_to_add; leaving the with block, normally or by an exception, writes
\* the zip with the members added
AppendDirs(f, zip_path, dirs_to_add) ==
    LET a == ZipAppendOpen(f, zip_path)
        saved(st) == [st.fs EXCEPT !.files[zip_path] = Arch("zip", st.members, a.badAt)]
    IN  Once({IF st.err # ""
              THEN [Packed(saved(st), st.err, <<>>, st.scratch) EXCEPT !.cause = st.cause]
              ELSE Packed(saved(st), "ok", <<zip_path>>, st.scratch) :
                 st \in {AddLoop([fs |-> f, members |-> a.members, err |-> "",
                                  cause |-> "", scratch |-> {}], dirs_to_add, 1)}})

\* (mutant) the zip is opened for appending, which creates it, before the
\* check of its existence
add_to_zip_OpensFirst(f, zip_path, dirs_to_add) ==
    IF ~IsFile(f, zip_path)
    THEN Packed(IF Exists(f, zip_path) THEN f
                ELSE WriteFile(f, zip_path, Arch("zip", <<>>, 0)).fs,
                "FileNotFoundError", <<>>, {})
    ELSE AppendDirs(f, zip_path, dirs_to_add)

\* add_to_zip(zip_path, dirs_to_add) run on filesystem f
add_to_zip(f, zip_path, dirs_to_add) ==
    IF ~IsFile(f, zip_path) THEN Packed(f, "FileNotFoundError", <<>>, {})
    ELSE AppendDirs(f, zip_path, dirs_to_add)

(***************************************************************************)
(* read_archived_file                                                      *)
(* A regular expression is a sequence of atoms: a token, which stands for  *)
(* itself, or WILD, which stands for ".*".                                 *)
(***************************************************************************)
WILD == ".*"

\* the atoms of regex from the i-th on match name from position j on, the
\* rest of name being free
RECURSIVE MatchAt(_, _, _, _)
MatchAt(regex, i, name, j) ==
    IF i > Len(regex) THEN TRUE
    ELSE IF regex[i] = WILD
    THEN \E k \in j..(Len(name) + 1) : MatchAt(regex, i + 1, name, k)
    ELSE j <= Len(name) /\ name[j] = regex[i] /\ MatchAt(regex, i + 1, name, j + 1)

\* (mutant) re.search: the match may start anywhere in the name
regex_search(regex, name) == \E j \in 1..(Len(name) + 1) : MatchAt(regex, 1, name, j)

\* re.compile(regex).match(name): the match starts at the first character
regex_match(regex, name) == MatchAt(regex, 1, name, 1)

\* list(filter(regex.match, name_list))
Matching(regex, name_list) == SelectSeq(name_list, LAMBDA n : regex_match(regex, n))

\* [mb.name for mb in tar_ds.getmembers()]
getnames(a) == [i \in 1..Len(a.members) |-> a.members[i].name]

\* the outcome of a read_archived_file call
ReadReturn(file_str) ==
    [status |-> "ok", cause |-> "", file_str |-> <<file_str>>, opened |-> TRUE]
ReadRaise(e, c, opened) ==
    [status |-> e, cause |-> c, file_str |-> <<>>, opened |-> opened]

\* (mutant) the IndexError of taking the first match is not caught
IndexErrorPropagates(regex) == ReadRaise("IndexError", "", TRUE)

\* except IndexError: raise FileNotFoundError(...)
OnIndexError(regex) == ReadRaise("FileNotFoundError", "IndexError", TRUE)

\* the tar branch: the first member bearing the first matching name is read;
\* TarFile.extractfile gives None for a directory, whose read fails
ReadFromTar(a, regex) ==
    LET hits == Matching(regex, getnames(a))
    IN  IF hits = <<>> THEN OnIndexError(regex)
        ELSE LET k == CHOOSE i \in 1..Len(a.members) :
                         /\ a.members[i].name = hits[1]
                         /\ \A j \in 1..(i - 1) : a.members[j].name # hits[1]
             IN  IF a.members[k].isdir THEN ReadRaise("AttributeError", "", TRUE)
                 ELSE IF a.badAt = k THEN ReadRaise("ReadError", "", TRUE)
                 ELSE ReadReturn(a.members[k].data)

\* the zip branch: ZipFile.read(band_name) reads the entry the name stands
\* for, which is the last one of the listing bearing it
ReadFromZip(a, regex) ==
    LET hits == Matching(regex, namelist(a))
    IN  IF hits = <<>> THEN OnIndexError(regex)
        ELSE LET k == CHOOSE i \in 1..Len(a.members) :
                         /\ ZipName(a.members[i]) = hits[1]
                         /\ \A j \in (i + 1)..Len(a.members) :
                               ZipName(a.members[j]) # hits[1]
             IN  IF a.badAt = k THEN ReadRaise("BadZipFile", "", TRUE)
                 ELSE ReadReturn(a.members[k].data)

\* (mutant) the archive is opened before its suffix is looked at
read_archived_file_OpensFirst(f, archive_path, regex) ==
    IF ZipOpen(f, archive_path) = "FileNotFoundError"
    THEN ReadRaise("FileNotFoundError", "", TRUE)
    ELSE IF Suffix(archive_path) = TAR
    THEN IF TarOpen(f, archive_path) # "" THEN ReadRaise(TarOpen(f, archive_path), "", TRUE)
         ELSE ReadFromTar(f.files[archive_path], regex)
    ELSE IF Suffix(archive_path) = ZIP
    THEN IF ZipOpen(f, archive_path) # "" THEN ReadRaise(ZipOpen(f, archive_path), "", TRUE)
         ELSE ReadFromZip(f.files[archive_path], regex)
    ELSE ReadRaise("TypeError", "", TRUE)

\* read_archived_file(archive_path, regex) run on filesystem f
read_archived_file(f, archive_path, regex) ==
    IF Suffix(archive_path) = TAR
    THEN IF TarOpen(f, archive_path) # "" THEN ReadRaise(TarOpen(f, archive_path), "", TRUE)
         ELSE ReadFromTar(f.files[archive_path], regex)
    ELSE IF Suffix(archive_path) = ZIP
    THEN IF ZipOpen(f, archive_path) # "" THEN ReadRaise(ZipOpen(f, archive_path), "", TRUE)
         ELSE ReadFromZip(f.files[archive_path], regex)
    ELSE IF Suffix(archive_path) = TARGZ
    THEN ReadRaise("TypeError", "", FALSE)
    ELSE ReadRaise("TypeError", "", FALSE)


(***************************************************************************)
(* remove_by_pattern                                                       *)
(* A wildcard pattern is a sequence of tokens, STAR standing for "*".      *)
(***************************************************************************)
STAR == "*"

\* the tokens of pattern from the i-th on match the whole of name from
\* position j on
RECURSIVE GlobAt(_, _, _, _)
GlobAt(pattern, i, name, j) ==
    IF i > Len(pattern) THEN j = Len(name) + 1
    ELSE IF pattern[i] = STAR
    THEN \E k \in j..(Len(name) + 1) : GlobAt(pattern, i + 1, name, k)
    ELSE j <= Len(name) /\ name[j] = pattern[i] /\ GlobAt(pattern, i + 1, name, j + 1)

\* (mutant) the pattern is looked for at the start of the name only
GlobPrefix(f, directory, pattern) ==
    Listing({Join(directory, n) : n \in {x \in Below(f, directory) :
                 FirstIndex(x, SEP) = 0
                 /\ \E k \in 1..(Len(x) + 1) : GlobAt(pattern, 1, SubSeq(x, 1, k - 1), 1)}})

\* directory.glob(pattern): the entries of the directory, files and
\* directories, whose name the pattern matches
Glob(f, directory, pattern) ==
    Listing({Join(directory, n) : n \in {x \in Below(f, directory) :
                 FirstIndex(x, SEP) = 0 /\ GlobAt(pattern, 1, x, 1)}})

\* for file in file_list: remove(file)
RECURSIVE RemoveEach(_, _, _)
RemoveEach(R, file_list, k) ==
    IF k > Len(file_list) THEN R
    ELSE RemoveEach(UNION {IF r.err # "" THEN {r} ELSE RemoveOutcomes(r.fs, file_list[k]) :
                              r \in R},
                    file_list, k + 1)

\* every outcome of remove_by_pattern(directory, name_with_wildcard,
\* extension); extension is <<>> for None and <<e>> for the string e, and
\* adding None to the pattern is a TypeError
RemoveByPatternOutcomes(f, directory, name_with_wildcard, extension) ==
    IF extension = <<>> THEN {Fail(f, "TypeError")}
    ELSE LET ext == IF extension[1] # <<>> /\ ~StartsWith(extension[1], <<DOT>>)
                    THEN <<DOT>> \o extension[1]
                    ELSE extension[1]
         IN  RemoveEach({Ok(f)}, Glob(f, directory, name_with_wildcard \o ext), 1)

(***************************************************************************)
(* JSON: CustomEncoder, CustomDecoder, save_json and read_json             *)
(* A Python value is a record of its type t and its content v: a str holds *)
(* its text as tokens, a date <<year, month, day>>, a datetime <<year,      *)
(* month, day, hour, minute, second>>, an Enum member the value it stands  *)
(* for, a list its items, a dict its items as <<key, value>> pairs.  A     *)
(* JSON document is made of the types str, int, list and dict alone.       *)
(***************************************************************************)
PyStr(s) == [t |-> "str", v |-> s]
PyInt(n) == [t |-> "int", v |-> n]
PyNpInt(w, n) == [t |-> w, v |-> n]
PyDate(y, m, d) == [t |-> "date", v |-> <<y, m, d>>]
PyDatetime(y, m, d, hh, mm, ss) == [t |-> "datetime", v |-> <<y, m, d, hh, mm, ss>>]
PyEnum(value) == [t |-> "Enum", v |-> value]
PyList(items) == [t |-> "list", v |-> items]
PyDict(items) == [t |-> "dict", v |-> items]
PyPath(s) == [t |-> "Path", v |-> s]
PyObject == [t |-> "object", v |-> 0]
Unserializable == [t |-> "TypeError", v |-> 0]

\* date.isoformat() and datetime.isoformat()
isoformat(obj) ==
    IF obj.t = "date" THEN <<obj.v[1], "-", obj.v[2], "-", obj.v[3]>>
    ELSE <<obj.v[1], "-", obj.v[2], "-", obj.v[3], "T", obj.v[4], ":", obj.v[5], ":", obj.v[6]>>

\* the calendar and the clock
Years == {"1999", "2020"}
Months == {"01", "02", "12"}
Days == {"01", "02", "30", "31"}
Hours == {"00", "10"}
Sixties == {"00", "11", "59"}
IsDay(m, d) == m \in Months /\ d \in Days /\ ~(m = "02" /\ d \in {"30", "31"})

\* whether date.fromisoformat(s) returns; it raises ValueError otherwise
IsIsoDate(s) ==
    /\ Len(s) = 5
    /\ s[1] \in Years /\ s[2] = "-" /\ s[4] = "-"
    /\ IsDay(s[3], s[5])
date_fromisoformat(s) == PyDate(s[1], s[3], s[5])

\* whether datetime.fromisoformat(s) returns: a date alone is midnight
IsIsoDatetime(s) ==
    \/ IsIsoDate(s)
    \/ /\ Len(s) = 11
       /\ IsIsoDate(SubSeq(s, 1, 5))
       /\ s[6] = "T" /\ s[8] = ":" /\ s[10] = ":"
       /\ s[7] \in Hours /\ s[9] \in Sixties /\ s[11] \in Sixties
datetime_fromisoformat(s) ==
    IF Len(s) = 5 THEN PyDatetime(s[1], s[3], s[5], "00", "00", "00")
    ELSE PyDatetime(s[1], s[3], s[5], s[7], s[9], s[11])

\* (mutant) the Enum member is written by its name
default_EnumName(obj) ==
    IF obj.t \in {"date", "datetime"} THEN PyStr(isoformat(obj))
    ELSE IF obj.t \in {"int64", "int32"} THEN PyInt(obj.v)
    ELSE IF obj.t = "Enum" THEN PyStr(<<"name">>)
    ELSE IF obj.t \in {"set", "Path"} THEN PyStr(obj.v)
    ELSE Unserializable

\* CustomEncoder.default(obj), called for the values json cannot write by
\* itself
default(obj) ==
    IF obj.t \in {"date", "datetime"} THEN PyStr(isoformat(obj))
    ELSE IF obj.t \in {"int64", "int32"} THEN PyInt(obj.v)
    ELSE IF obj.t = "Enum" THEN obj.v
    ELSE IF obj.t \in {"set", "Path"} THEN PyStr(obj.v)
    ELSE Unserializable

\* json.dump(obj, cls=CustomEncoder): the document written for obj; what
\* default returns is encoded in its turn
RECURSIVE Encode(_)
Encode(obj) ==
    IF obj.t \in {"str", "int", "TypeError"} THEN obj
    ELSE IF obj.t = "list" THEN PyList([i \in 1..Len(obj.v) |-> Encode(obj.v[i])])
    ELSE IF obj.t = "dict"
    THEN PyDict([i \in 1..Len(obj.v) |-> <<obj.v[i][1], Encode(obj.v[i][2])>>])
    ELSE Encode(default(obj))

\* whether the writing of the document stopped on a TypeError
RECURSIVE Stopped(_)
Stopped(doc) ==
    IF doc.t = "TypeError" THEN TRUE
    ELSE IF doc.t = "list" THEN \E i \in 1..Len(doc.v) : Stopped(doc.v[i])
    ELSE IF doc.t = "dict" THEN \E i \in 1..Len(doc.v) : Stopped(doc.v[i][2])
    ELSE FALSE

\* (mutant) the strings of a document are left as they are
object_hook_Plain(items) == PyDict(items)

\* CustomDecoder.object_hook(obj): every str among the values of the dict
\* becomes a date, else a datetime, else stays
object_hook(items) ==
    PyDict([i \in 1..Len(items) |->
        LET val == items[i][2]
        IN  <<items[i][1],
              IF val.t = "str"
              THEN IF IsIsoDate(val.v) THEN date_fromisoformat(val.v)
                   ELSE IF IsIsoDatetime(val.v) THEN datetime_fromisoformat(val.v)
                   ELSE val
              ELSE val>>])

\* (mutant) the strings of a list are converted like those of a dict
RECURSIVE DecodeInLists(_)
DecodeInLists(doc) ==
    IF doc.t = "list"
    THEN PyList([i \in 1..Len(doc.v) |->
                    object_hook(<< <<"item", DecodeInLists(doc.v[i])>> >>).v[1][2]])
    ELSE IF doc.t = "dict"
    THEN object_hook([i \in 1..Len(doc.v) |-> <<doc.v[i][1], DecodeInLists(doc.v[i][2])>>])
    ELSE doc

\* json.load(file, cls=CustomDecoder): the value read from document doc,
\* object_hook being applied to every dict once its values are read
RECURSIVE Decode(_)
Decode(doc) ==
    IF doc.t = "list" THEN PyList([i \in 1..Len(doc.v) |-> Decode(doc.v[i])])
    ELSE IF doc.t = "dict"
    THEN object_hook([i \in 1..Len(doc.v) |-> <<doc.v[i][1], Decode(doc.v[i][2])>>])
    ELSE doc

\* save_json(json_dict, output_json): the content of the file and the error
\* raised; a TypeError leaves the beginning of the document in the file
save_json(json_dict) ==
    LET doc == Encode(json_dict)
    IN  IF Stopped(doc) THEN [file |-> <<>>, truncated |-> TRUE, err |-> "TypeError"]
        ELSE [file |-> <<doc>>, truncated |-> FALSE, err |-> ""]

\* read_json(json_file) on what save_json left
read_json(saved) ==
    IF saved.truncated THEN [data |-> <<>>, err |-> "JSONDecodeError"]
    ELSE [data |-> <<Decode(saved.file[1])>>, err |-> ""]

(***************************************************************************)
(* Logging: init_logger and create_logger                                  *)
(* A handler is an object: handlers[h] is the handler of identity h, of    *)
(* kind "stream" or "file", with its level and its formatter; a logger has *)
(* a level and the list of the identities of its handlers.                 *)
(***************************************************************************)
LOGGING_FORMAT == "%(asctime)s - [%(levelname)s] - %(message)s"
COLOR_FORMAT == "%(asctime)s - [%(log_color)s%(levelname)s%(reset)s] - %(message_log_color)s%(message)s"
Handler(kind, level, formatter) == [kind |-> kind, level |-> level, formatter |-> formatter]
Logger(level, hs) == [level |-> level, handlers |-> hs]

\* Logger.removeHandler(hdlr): list.remove of the handler, if it is there
removeHandler(hs, hdlr) ==
    IF \E i \in 1..Len(hs) : hs[i] = hdlr
    THEN LET k == CHOOSE i \in 1..Len(hs) : hs[i] = hdlr /\ \A j \in 1..(i - 1) : hs[j] # hdlr
         IN  SubSeq(hs, 1, k - 1) \o SubSeq(hs, k + 1, Len(hs))
    ELSE hs

\* Logger.addHandler(hdlr): appended unless already there
addHandler(hs, hdlr) ==
    IF \E i \in 1..Len(hs) : hs[i] = hdlr THEN hs ELSE Append(hs, hdlr)

\* for handler in logger.handlers: logger.removeHandler(handler), the list
\* iterator being at item i of the list that is being shortened
RECURSIVE RemoveHandlers(_, _)
RemoveHandlers(hs, i) ==
    IF i > Len(hs) THEN hs ELSE RemoveHandlers(removeHandler(hs, hs[i]), i + 1)

\* (mutant) a handler is added also to a logger that has handlers
init_logger_AlwaysAdds(L, log_lvl, log_format) ==
    [L EXCEPT !.logger.level = log_lvl,
              !.handlers = Append(@, Handler("stream", log_lvl, log_format)),
              !.logger.handlers = Append(@, Len(L.handlers) + 1)]

\* init_logger(curr_logger, log_lvl, log_format)
init_logger(L, log_lvl, log_format) ==
    IF L.logger.handlers # <<>>
    THEN [L EXCEPT !.logger.level = log_lvl,
                   !.handlers[L.logger.handlers[1]].level = log_lvl,
                   !.handlers[L.logger.handlers[1]].formatter = log_format]
    ELSE [L EXCEPT !.logger.level = log_lvl,
                   !.handlers = Append(@, Handler("stream", log_lvl, log_format)),
                   !.logger.handlers = addHandler(@, Len(L.handlers) + 1)]

\* open(p, "a"), as logging.FileHandler does on its creation
OpenAppend(f, p) ==
    IF IsDir(f, p) THEN Fail(f, "IsADirectoryError")
    ELSE IF ~IsDir(f, Parent(p)) THEN Fail(f, "FileNotFoundError")
    ELSE IF IsFile(f, p) THEN Ok(f)
    ELSE WriteFile(f, p, Data(0))

\* the name of the log file, date being the time of the call
LogFileName(date, name) == <<date, "_", name, "_log", DOT, "txt">>

\* create_logger(logger, file_log_level, stream_log_level, output_folder,
\* name, other_logger_names) at time date: the handlers and loggers, the
\* filesystem and the error raised
create_logger(L, f, file_log_level, stream_log_level, output_folder, name, other_logger_names, date) ==
    LET kept == RemoveHandlers(L.logger.handlers, 1)
        stream_handler == Len(L.handlers) + 1
        file_handler == Len(L.handlers) + 2
        L1 == [L EXCEPT !.handlers = Append(@, Handler("stream", stream_log_level, COLOR_FORMAT)),
                        !.logger.handlers = addHandler(kept, stream_handler)]
        opened == OpenAppend(f, Join(output_folder, LogFileName(date, name)))
        L2 == [L1 EXCEPT !.handlers = Append(@, Handler("file", file_log_level, LOGGING_FORMAT)),
                         !.logger.handlers = addHandler(@, file_handler)]
    IN  IF opened.err # "" THEN [loggers |-> L1, fs |-> f, err |-> opened.err]
        ELSE IF other_logger_names = <<>> THEN [loggers |-> L2, fs |-> opened.fs, err |-> ""]
        ELSE [loggers |-> [L2 EXCEPT !.other = Logger("INFO", <<stream_handler, file_handler>>)],
              fs |-> opened.fs, err |-> ""]

(***************************************************************************)
(* Inputs                                                                  *)
(***************************************************************************)
MaxCalls == 2
MaxBatch == 2
MaxAdd == 2
MaxLogCalls == 3

IN_DIR == <<"in">>
OUT_DIR == <<"out">>
FOLDER == Join(IN_DIR, <<"F">>)
CLOUD_FOLDER == Join(CLOUD, <<"F">>)

\* member names
N_A == <<"a">>
N_B == <<"b">>
N_F == <<"F">>
N_A_X == <<"a", SEP, "x">>
N_B_A == <<"b", SEP, "a">>
N_B_C == <<"b", SEP, "c">>
N_D == <<"d">>
N_D_Y == <<"d", SEP, "y">>
N_R == <<"r">>
N_S == <<"s">>

\* archive file names
P_ZIP == <<"p", DOT, "zip">>
P_TAR == <<"p", DOT, "tar">>
P_TAR_GZ == <<"p", DOT, "tar", DOT, "gz">>
A_B_TAR_GZ == <<"a", DOT, "b", DOT, "tar", DOT, "gz">>
P_TAR_BZ2 == <<"p", DOT, "tar", DOT, "bz2">>
P_TXT == <<"p", DOT, "txt">>
Z_ZIP == <<"z", DOT, "zip">>
MISSING_ZIP == <<"m", DOT, "zip">>
\* a directory of the input directory that is named like a zip
DIR_ZIP == Join(IN_DIR, <<"e", DOT, "zip">>)

\* the archive files a run may start with: name and content
SampleArchives ==
    { <<P_ZIP, Arch("zip", <<Member(N_A, TRUE, 0), Member(N_A_X, FALSE, 1)>>, 0)>>,
      <<P_ZIP, Arch("zip", <<Member(N_A_X, FALSE, 1), Member(N_B_A, FALSE, 2),
                             Member(N_B_C, FALSE, 1)>>, 0)>>,
      <<P_ZIP, Arch("zip", <<Member(N_B, FALSE, 1), Member(N_A_X, FALSE, 2)>>, 0)>>,
      <<P_ZIP, Arch("zip", <<>>, 0)>>,
      <<P_ZIP, Arch("zip", <<Member(N_A_X, FALSE, 1), Member(N_B_C, FALSE, 2)>>, 2)>>,
      <<P_ZIP, Arch("junk", <<>>, 0)>>,
      <<P_TAR, Arch("tar", <<Member(N_R, FALSE, 1), Member(N_D, TRUE, 0),
                             Member(N_D_Y, FALSE, 2)>>, 0)>>,
      <<P_TAR, Arch("tar", <<Member(N_R, FALSE, 1), Member(N_S, FALSE, 2)>>, 2)>>,
      <<P_TAR, Arch("junk", <<>>, 0)>>,
      <<P_TAR_GZ, Arch("gztar", <<Member(N_R, FALSE, 1), Member(N_D, TRUE, 0),
                                  Member(N_D_Y, FALSE, 2)>>, 0)>>,
      <<A_B_TAR_GZ, Arch("gztar", <<Member(N_R, FALSE, 1)>>, 0)>>,
      <<P_TAR_BZ2, Arch("bztar", <<Member(N_R, FALSE, 1)>>, 0)>>,
      <<P_TXT, Data(1)>> }

\* the names a zip of the model can hold at its top level, and the orders a
\* process can give them
TopNames == {N_A, N_B, N_F}

Orders ==
    {o \in [1..Cardinality(TopNames) -> TopNames] :
        \A i, j \in 1..Cardinality(TopNames) : i # j => o[i] # o[j]}

\* what the output directory holds at the start: nothing, or directories
\* left by earlier work at the places the targets go
N_OLD == <<"old">>
StaleDirs == {Join(OUT_DIR, N_A), Join(OUT_DIR, <<"p">>)}
OutputStates == {"absent", "stale"}

\* the filesystem at the start: the archive files archs in the input
\* directory, the local folder F and the remote folder F
InitFs(archs, outState) ==
    LET stale == IF outState = "stale" THEN StaleDirs ELSE {}
        given == {Join(IN_DIR, x[1]) : x \in archs}
    IN  [dirs |-> {IN_DIR, FOLDER, Join(FOLDER, N_D), CLOUD, CLOUD_FOLDER}
                  \cup (IF stale = {} THEN {} ELSE {OUT_DIR}) \cup stale,
         files |-> [q \in given \cup {Join(FOLDER, <<"x">>), Join(FOLDER, N_D_Y),
                                      Join(CLOUD_FOLDER, <<"x">>)}
                          \cup {Join(d, N_OLD) : d \in stale}
                    |-> IF q \in given
                        THEN (CHOOSE x \in archs : Join(IN_DIR, x[1]) = q)[2]
                        ELSE IF q \in {Join(FOLDER, <<"x">>), Join(CLOUD_FOLDER, <<"x">>)}
                        THEN Data(1)
                        ELSE IF q = Join(FOLDER, N_D_Y) THEN Data(2)
                        ELSE Data(3)]]

NoCall ==
    [op |-> "none", src |-> <<>>, dst |-> <<>>, overwrite |-> FALSE, fmt |-> "",
     pre |-> EmptyFs, status |-> "", cause |-> "", single |-> FALSE, paths |-> <<>>,
     scratch |-> {}]

\* what is kept of a call once the next one is made
Summary(c) ==
    [op |-> c.op, src |-> c.src, dst |-> c.dst, overwrite |-> c.overwrite, fmt |-> c.fmt,
     status |-> c.status, single |-> c.single, paths |-> c.paths]

NoBatch ==
    [active |-> FALSE, archives |-> <<>>, output |-> <<>>, overwrite |-> FALSE,
     i |-> 0, extracts |-> <<>>, opened |-> <<>>, status |-> ""]

\* the paths a caller passes as an archive: the files of the input directory,
\* the folder, and a zip that does not exist
InputPaths(f) ==
    {q \in DOMAIN f.files \cup f.dirs : Parent(q) = IN_DIR} \cup {Join(IN_DIR, MISSING_ZIP)}

(***************************************************************************)
(* Calls                                                                   *)
(***************************************************************************)
\* a call of extract_file(file_path, OUT_DIR, overwrite)
ExtractFileCall ==
    /\ ~batch.active
    /\ ncalls < MaxCalls
    /\ \E file_path \in InputPaths(fs), overwrite \in BOOLEAN :
          \E r \in {extract_file(fs, file_path, OUT_DIR, overwrite)} :
              /\ fs' = r.fs
              /\ last' = [op |-> "extract_file", src |-> file_path, dst |-> OUT_DIR,
                          overwrite |-> overwrite, fmt |-> "", pre |-> fs,
                          status |-> r.status, cause |-> r.cause,
                          single |-> r.single, paths |-> r.paths, scratch |-> {}]
    /\ prev' = Summary(last)
    /\ ncalls' = ncalls + 1
    /\ UNCHANGED <<hashOrder, inDocker, undeletable, batch, read, json, loggers>>

\* a call of archive(folder_path, archive_path, fmt): the archive path is
\* given without extension or with the extension of the format
ArchiveBase == Join(IN_DIR, <<"q">>)
ArchivePaths(fmt) ==
    {ArchiveBase} \cup (IF fmt \in ArchiveFormats THEN {ArchiveBase \o FormatExt(fmt)} ELSE {})

ArchiveCall ==
    /\ ~batch.active
    /\ ncalls < MaxCalls
    /\ \E folder_path \in {FOLDER, CLOUD_FOLDER}, fmt \in ArchiveFormats \cup {"rar"} :
       \E archive_path \in ArchivePaths(fmt) :
          \E r \in {archive(fs, folder_path, archive_path, fmt)} :
              /\ fs' = r.fs
              /\ last' = [op |-> "archive", src |-> folder_path, dst |-> archive_path,
                          overwrite |-> FALSE, fmt |-> fmt, pre |-> fs,
                          status |-> r.status, cause |-> r.cause,
                          single |-> r.single, paths |-> r.paths, scratch |-> r.scratch]
    /\ prev' = Summary(last)
    /\ ncalls' = ncalls + 1
    /\ UNCHANGED <<hashOrder, inDocker, undeletable, batch, read, json, loggers>>

\* a call of add_to_zip(zip_path, dirs_to_add); dst holds dirs_to_add; the
\* zip path is a zip of the input directory, one that does not exist, or
\* the folder
ZipPaths(f) == {q \in InputPaths(f) : Suffix(q) = ZIP \/ q = FOLDER}
AddInputs(f) == InputPaths(f) \ {Join(IN_DIR, MISSING_ZIP), Join(IN_DIR, Z_ZIP)}

AddToZipCall ==
    /\ ~batch.active
    /\ ncalls < MaxCalls
    /\ \E zip_path \in ZipPaths(fs), n \in 1..MaxAdd :
       \E dirs_to_add \in [1..n -> AddInputs(fs)] :
          \E r \in {add_to_zip(fs, zip_path, dirs_to_add)} :
              /\ fs' = r.fs
              /\ last' = [op |-> "add_to_zip", src |-> zip_path, dst |-> dirs_to_add,
                          overwrite |-> FALSE, fmt |-> "", pre |-> fs,
                          status |-> r.status, cause |-> r.cause,
                          single |-> r.single, paths |-> r.paths, scratch |-> r.scratch]
    /\ prev' = Summary(last)
    /\ ncalls' = ncalls + 1
    /\ UNCHANGED <<hashOrder, inDocker, undeletable, batch, read, json, loggers>>

\* (mutant) the result of each archive is put before those already collected
ExtractFilesStepPrepends ==
    /\ batch.active
    /\ batch.i <= Len(batch.archives)
    /\ \E r \in {extract_file(fs, batch.archives[batch.i], batch.output, batch.overwrite)} :
           /\ fs' = r.fs
           /\ IF r.status = "ok"
              THEN /\ batch' = [batch EXCEPT
                          !.i = @ + 1,
                          !.extracts = <<[single |-> r.single, paths |-> r.paths]>> \o @,
                          !.opened = Append(@, batch.archives[batch.i])]
                   /\ UNCHANGED last
              ELSE /\ batch' = [batch EXCEPT
                          !.active = FALSE, !.status = r.status,
                          !.opened = Append(@, batch.archives[batch.i])]
                   /\ last' = [last EXCEPT !.status = r.status, !.cause = r.cause]
    /\ UNCHANGED <<hashOrder, inDocker, undeletable, prev, ncalls, read, json, loggers>>

\* extract_files(archives, output, overwrite) handles its next archive:
\* extracts.append(extract_file(arch, output, overwrite)), an exception of
\* extract_file ending the call ...
ExtractFilesStep ==
    /\ batch.active
    /\ batch.i <= Len(batch.archives)
    /\ \E r \in {extract_file(fs, batch.archives[batch.i], batch.output, batch.overwrite)} :
           /\ fs' = r.fs
           /\ IF r.status = "ok"
              THEN /\ batch' = [batch EXCEPT
                          !.i = @ + 1,
                          !.extracts = Append(@, [single |-> r.single, paths |-> r.paths]),
                          !.opened = Append(@, batch.archives[batch.i])]
                   /\ UNCHANGED last
              ELSE /\ batch' = [batch EXCEPT
                          !.active = FALSE, !.status = r.status,
                          !.opened = Append(@, batch.archives[batch.i])]
                   /\ last' = [last EXCEPT !.status = r.status, !.cause = r.cause]
    /\ UNCHANGED <<hashOrder, inDocker, undeletable, prev, ncalls, read, json, loggers>>

\* ... and returns extracts after the last one
ExtractFilesReturn ==
    /\ batch.active
    /\ batch.i > Len(batch.archives)
    /\ batch' = [batch EXCEPT !.active = FALSE, !.status = "ok"]
    /\ last' = [last EXCEPT !.status = "ok"]
    /\ UNCHANGED <<fs, hashOrder, inDocker, undeletable, prev, ncalls, read, json, loggers>>

\* no read_archived_file call made yet
NoRead ==
    [archive_path |-> <<>>, regex |-> <<>>, status |-> "", cause |-> "",
     file_str |-> <<>>, opened |-> FALSE]

\* the regular expressions given to read_archived_file
ReadPatterns ==
    { <<"a">>, N_B_C, <<"x">>, <<WILD, "x">>, <<"r">>, <<"d">>, <<WILD, "y">>, <<"q">> }

\* a call of read_archived_file, which leaves the filesystem as it is
ReadArchivedFileCall ==
    /\ ~batch.active
    /\ \E archive_path \in InputPaths(fs), regex \in ReadPatterns :
          \E r \in {read_archived_file(fs, archive_path, regex)} :
              read' = [archive_path |-> archive_path, regex |-> regex,
                       status |-> r.status, cause |-> r.cause,
                       file_str |-> r.file_str, opened |-> r.opened]
    /\ UNCHANGED <<fs, hashOrder, inDocker, undeletable, last, prev, ncalls, batch, json, loggers>>

\* the work directory of the removals: files, a directory holding a file
\* and a directory named like a file
WORK == <<"w">>
W_A == Join(WORK, <<"a">>)
W_AT == Join(WORK, <<"a", DOT, "t">>)
W_BT == Join(WORK, <<"b", DOT, "t">>)
W_BY == Join(WORK, <<"b", DOT, "y">>)
W_AB == Join(WORK, <<"a", "b">>)
W_AB_AT == Join(W_AB, <<"a", DOT, "t">>)
W_CT == Join(WORK, <<"c", DOT, "t">>)
W_MISSING == Join(WORK, <<"z">>)

WorkFs ==
    [dirs |-> {WORK, W_AB, W_CT},
     files |-> [q \in {W_A, W_AT, W_BT, W_BY, W_AB_AT} |->
                   IF q \in {W_A, W_AT} THEN Data(1) ELSE Data(2)]]

\* the paths given to remove, the patterns and the extensions given to
\* remove_by_pattern (<<>>: no extension given)
RemovePaths == {WORK, W_A, W_AT, W_AB, W_AB_AT, W_CT, W_MISSING}
WildcardPatterns == { <<STAR>>, <<"a", STAR>>, <<"b">>, <<STAR, "b">> }
Extensions == { <<>>, << <<>> >>, << <<"t">> >>, << <<DOT, "t">> >>, << <<"y">> >> }
Refusals == { {}, {W_AT}, {W_AB_AT}, {W_AB} }

\* a call of remove
RemoveCall ==
    /\ ~batch.active
    /\ ncalls < MaxCalls
    /\ \E path \in RemovePaths :
       \E r \in RemoveOutcomes(fs, path) :
          /\ fs' = r.fs
          /\ last' = [NoCall EXCEPT !.op = "remove", !.src = path, !.pre = fs,
                                    !.status = IF r.err = "" THEN "ok" ELSE r.err]
    /\ prev' = Summary(last)
    /\ ncalls' = ncalls + 1
    /\ UNCHANGED <<hashOrder, inDocker, undeletable, batch, read, json, loggers>>

\* a call of remove_by_pattern on the work directory
RemoveByPatternCall ==
    /\ ~batch.active
    /\ ncalls < MaxCalls
    /\ \E name_with_wildcard \in WildcardPatterns, extension \in Extensions :
       \E r \in RemoveByPatternOutcomes(fs, WORK, name_with_wildcard, extension) :
          /\ fs' = r.fs
          /\ last' = [NoCall EXCEPT !.op = "remove_by_pattern", !.src = WORK,
                                    !.dst = <<name_with_wildcard, extension>>, !.pre = fs,
                                    !.status = IF r.err = "" THEN "ok" ELSE r.err]
    /\ prev' = Summary(last)
    /\ ncalls' = ncalls + 1
    /\ UNCHANGED <<hashOrder, inDocker, undeletable, batch, read, json, loggers>>

\* nothing saved yet
NoJson ==
    [json_dict |-> PyDict(<<>>), stage |-> "none", file |-> <<>>, truncated |-> FALSE,
     data |-> <<>>, status |-> ""]

\* the values put in the dictionaries given to save_json
D1 == PyDate("2020", "01", "02")
D2 == PyDate("1999", "12", "31")
T1 == PyDatetime("2020", "01", "02", "10", "11", "59")
T0 == PyDatetime("2020", "02", "01", "00", "00", "00")
S_PLAIN == PyStr(<<"abc">>)
S_DATE == PyStr(<<"2020", "-", "01", "-", "02">>)
S_DATETIME == PyStr(<<"1999", "-", "12", "-", "31", "T", "10", ":", "00", ":", "11">>)
S_NO_DATE == PyStr(<<"2020", "-", "02", "-", "30">>)
S_NO_TIME == PyStr(<<"2020", "-", "01", "-", "02", "T", "24", ":", "00", ":", "00">>)

Scalars ==
    { D1, D2, T1, T0, S_PLAIN, S_DATE, S_DATETIME, S_NO_DATE, S_NO_TIME,
      PyInt(7), PyNpInt("int64", 7), PyNpInt("int32", 3),
      PyEnum(PyInt(1)), PyEnum(S_PLAIN), PyEnum(S_DATE), PyEnum(D2),
      PyPath(<<"in", SEP, "F">>), PyObject }

JsonValues ==
    Scalars
    \cup {PyList(<<x>>) : x \in {D1, T1, S_DATE, S_PLAIN, PyEnum(PyInt(1))}}
    \cup {PyList(<<PyList(<<x>>)>>) : x \in {D1, T1}}
    \cup {PyDict(<< <<"k", x>> >>) : x \in {D2, T0, S_DATETIME, S_NO_DATE, PyNpInt("int64", 7)}}
    \cup {PyList(<<PyDict(<< <<"k", x>> >>)>>) : x \in {D1, S_PLAIN}}
    \cup {PyDict(<< <<"k", PyList(<<x>>)>> >>) : x \in {D1, T1}}

\* the dictionaries given to save_json: one or two keys
JsonDicts ==
    {PyDict(<< <<"a", x>> >>) : x \in JsonValues}
    \cup {PyDict(<< <<"a", x>>, <<"b", y>> >>) : x \in {D1, PyInt(7), PyNpInt("int64", 7)},
                                                y \in {T1, PyEnum(S_PLAIN), PyObject}}

\* a call of save_json
SaveJsonCall ==
    /\ json.stage = "given"
    /\ \E r \in {save_json(json.json_dict)} :
          json' = [json EXCEPT !.stage = "saved", !.file = r.file,
                               !.truncated = r.truncated, !.status = r.err]
    /\ UNCHANGED <<fs, hashOrder, inDocker, undeletable, last, prev, ncalls, batch, read, loggers>>

\* a call of read_json on the file save_json wrote
ReadJsonCall ==
    /\ json.stage = "saved"
    /\ \E r \in {read_json(json)} :
          json' = [json EXCEPT !.stage = "read", !.data = r.data, !.status = r.err]
    /\ UNCHANGED <<fs, hashOrder, inDocker, undeletable, last, prev, ncalls, batch, read, loggers>>

\* the logger before logs.py is called: a new logger, or one that was given
\* one or two handlers by the program
LOG_DIR == <<"logs">>
NO_LOG_DIR == <<"nologs">>
LogFs == [dirs |-> {LOG_DIR}, files |-> <<>>]
NoLogCall == [op |-> "none", before |-> Logger("NOTSET", <<>>), created |-> 0, err |-> "",
              log_lvl |-> "", log_format |-> "", others |-> <<>>]
NoLoggers ==
    [handlers |-> <<>>, logger |-> Logger("NOTSET", <<>>), other |-> Logger("NOTSET", <<>>),
     given |-> 0, was |-> <<>>, call |-> NoLogCall, history |-> <<>>]
GivenHandlers ==
    { <<>>,
      <<Handler("stream", "WARNING", "%(message)s")>>,
      <<Handler("stream", "WARNING", "%(message)s"), Handler("file", "ERROR", "%(message)s")>> }
LogLevels == {"DEBUG", "INFO"}
LogFormats == {LOGGING_FORMAT, "%(levelname)s:%(message)s"}
LogDates == {"210302_165735", "210302_165736"}

\* a call of init_logger on the logger
InitLoggerCall ==
    /\ ncalls < MaxLogCalls
    /\ \E log_lvl \in LogLevels, log_format \in LogFormats :
          \E r \in {init_logger(loggers, log_lvl, log_format)} :
             loggers' = [r EXCEPT !.was = loggers.handlers,
                                  !.call = [op |-> "init_logger", before |-> loggers.logger,
                                            created |-> Len(loggers.handlers), err |-> "",
                                            log_lvl |-> log_lvl, log_format |-> log_format,
                                            others |-> <<>>],
                                  !.history = Append(@, "init_logger")]
    /\ ncalls' = ncalls + 1
    /\ UNCHANGED <<fs, hashOrder, inDocker, undeletable, last, prev, batch, read, json>>

\* a call of create_logger on the logger
CreateLoggerCall ==
    /\ ncalls < MaxLogCalls
    /\ \E output_folder \in {LOG_DIR, NO_LOG_DIR}, others \in {<<>>, <<"other">>},
          date \in LogDates :
          \E r \in {create_logger(loggers, fs, "DEBUG", "INFO", output_folder, "sertit",
                                  others, date)} :
             /\ loggers' = [r.loggers EXCEPT
                               !.was = loggers.handlers,
                               !.call = [op |-> "create_logger", before |-> loggers.logger,
                                         created |-> Len(loggers.handlers), err |-> r.err,
                                         log_lvl |-> "", log_format |-> "", others |-> others],
                               !.history = Append(@, "create_logger")]
             /\ fs' = r.fs
    /\ ncalls' = ncalls + 1
    /\ UNCHANGED <<hashOrder, inDocker, undeletable, last, prev, batch, read, json>>

(***************************************************************************)
(* Specifications                                                          *)
(***************************************************************************)
\* The extractor: calls of extract_file on one archive file.  The archives
\* hold only a and b at top level, so the place of F in the order is fixed.
Init ==
    /\ \E arch \in SampleArchives, o \in OutputStates :
          fs = [InitFs({arch}, o) EXCEPT !.dirs = @ \cup {DIR_ZIP}]
    /\ hashOrder \in {o \in Orders : o[3] = N_F}
    /\ inDocker \in BOOLEAN
    /\ undeletable \in {{}, StaleDirs}
    /\ read = NoRead
    /\ json = NoJson
    /\ loggers = NoLoggers
    /\ last = NoCall
    /\ prev = Summary(NoCall)
    /\ ncalls = 0
    /\ batch = NoBatch

Next ==
    \/ ExtractFileCall

Spec == Init /\ [][Next]_vars

\* The batch extractor: one call of extract_files, its arguments drawn at
\* the start, on an input directory holding a zip and a tar.
BatchZips == {x \in SampleArchives : x[1] = P_ZIP /\ x[2].fmt \in {"zip", "junk"}
                                     /\ Len(x[2].members) \in {0, 3}}
BatchTars == {x \in SampleArchives : x[1] \in {P_TAR, A_B_TAR_GZ} /\ x[2].fmt # "junk"}

InitBatch ==
    /\ \E z \in BatchZips, t \in BatchTars, o \in OutputStates : fs = InitFs({z, t}, o)
    /\ hashOrder \in {o \in Orders : o[3] = N_F}
    /\ inDocker \in BOOLEAN
    /\ undeletable = {}
    /\ read = NoRead
    /\ json = NoJson
    /\ loggers = NoLoggers
    /\ last = [NoCall EXCEPT !.op = "extract_files", !.pre = fs, !.status = "running"]
    /\ prev = Summary(NoCall)
    /\ ncalls = 1
    /\ \E n \in 1..MaxBatch, overwrite \in BOOLEAN :
       \E archives \in [1..n -> InputPaths(fs)] :
          batch = [active |-> TRUE, archives |-> archives, output |-> OUT_DIR,
                   overwrite |-> overwrite, i |-> 1, extracts |-> <<>>,
                   opened |-> <<>>, status |-> "running"]

NextBatch ==
    \/ ExtractFilesStep
    \/ ExtractFilesReturn

SpecBatch == InitBatch /\ [][NextBatch]_vars

\* The round trip: calls of archive and of extract_file on an input
\* directory holding the folder and a zip of two directories.
PackSamples ==
    {x \in SampleArchives : x[1] = P_ZIP /\ x[2].fmt = "zip" /\ Len(x[2].members) = 3}

InitPack ==
    /\ \E arch \in PackSamples : fs = InitFs({arch}, "absent")
    /\ hashOrder \in {o \in Orders : o[3] = N_F}
    /\ inDocker \in BOOLEAN
    /\ undeletable = {}
    /\ read = NoRead
    /\ json = NoJson
    /\ loggers = NoLoggers
    /\ last = NoCall
    /\ prev = Summary(NoCall)
    /\ ncalls = 0
    /\ batch = NoBatch

NextPack ==
    \/ ArchiveCall
    \/ ExtractFileCall

SpecPack == InitPack /\ [][NextPack]_vars

\* The packers and the extractor: calls of archive, add_to_zip and
\* extract_file, the top-level names of a zip being listed in any order.
InitZip ==
    /\ \E arch \in PackSamples : fs = InitFs({arch}, "absent")
    /\ hashOrder \in Orders
    /\ inDocker \in BOOLEAN
    /\ undeletable = {}
    /\ read = NoRead
    /\ json = NoJson
    /\ loggers = NoLoggers
    /\ last = NoCall
    /\ prev = Summary(NoCall)
    /\ ncalls = 0
    /\ batch = NoBatch

NextZip ==
    \/ ArchiveCall
    \/ AddToZipCall
    \/ ExtractFileCall

SpecZip == InitZip /\ [][NextZip]_vars

\* The appender: calls of add_to_zip on the zip z.zip, on the archive given
\* or on a zip that does not exist, with the folder and the files of the
\* input directory as inputs, and calls of extract_file.
AddSamples ==
    {x \in SampleArchives :
        \/ x[1] = P_ZIP /\ x[2].fmt = "zip" /\ x[2].badAt = 0 /\ Len(x[2].members) \in {2, 3}
                        /\ x[2].members[1].name # N_B
        \/ x[1] = P_TAR /\ x[2].fmt = "tar" /\ x[2].badAt = 0}

ZipSample == <<Z_ZIP, Arch("zip", <<Member(N_B, TRUE, 0), Member(N_B_C, FALSE, 2)>>, 0)>>

InitAdd ==
    /\ \E arch \in AddSamples : fs = InitFs({arch, ZipSample}, "absent")
    /\ hashOrder \in {o \in Orders : o[2] = N_B}
    /\ inDocker \in BOOLEAN
    /\ undeletable = {}
    /\ read = NoRead
    /\ json = NoJson
    /\ loggers = NoLoggers
    /\ last = NoCall
    /\ prev = Summary(NoCall)
    /\ ncalls = 0
    /\ batch = NoBatch

NextAdd ==
    \/ AddToZipCall
    \/ ExtractFileCall

SpecAdd == InitAdd /\ [][NextAdd]_vars

\* The appender on folders: calls of add_to_zip on the zip z.zip or on a zip
\* that does not exist, with the folder as every input, and calls of
\* extract_file.
InitAppend ==
    /\ fs = InitFs({ZipSample}, "absent")
    /\ hashOrder \in Orders
    /\ inDocker \in BOOLEAN
    /\ undeletable = {}
    /\ read = NoRead
    /\ json = NoJson
    /\ loggers = NoLoggers
    /\ last = NoCall
    /\ prev = Summary(NoCall)
    /\ ncalls = 0
    /\ batch = NoBatch

NextAppend ==
    \/ AddToZipCall
    \/ ExtractFileCall

SpecAppend == InitAppend /\ [][NextAppend]_vars

\* The reader: calls of read_archived_file on one archive file of the input
\* directory, among them a zip and a tar holding two members of one name.
ReadSamples ==
    {x \in SampleArchives : x[1] \notin {A_B_TAR_GZ, P_TAR_BZ2}}
    \cup { <<P_ZIP, Arch("zip", <<Member(N_B_C, FALSE, 1), Member(N_A_X, FALSE, 2),
                                  Member(N_B_C, FALSE, 2)>>, 0)>>,
           <<P_TAR, Arch("tar", <<Member(N_R, FALSE, 1), Member(N_R, FALSE, 2)>>, 0)>>,
           <<P_TAR, Arch("gztar", <<Member(N_R, FALSE, 1)>>, 0)>> }

InitRead ==
    /\ \E arch \in ReadSamples : fs = InitFs({arch}, "absent")
    /\ hashOrder \in {o \in Orders : o[1] = N_A /\ o[2] = N_B}
    /\ inDocker = FALSE
    /\ undeletable = {}
    /\ read = NoRead
    /\ json = NoJson
    /\ loggers = NoLoggers
    /\ last = NoCall
    /\ prev = Summary(NoCall)
    /\ ncalls = 0
    /\ batch = NoBatch

NextRead ==
    \/ ReadArchivedFileCall

SpecRead == InitRead /\ [][NextRead]_vars

\* The removals: calls of remove and of remove_by_pattern on the work
\* directory, the operating system refusing to delete some of its entries.
InitRemove ==
    /\ fs = WorkFs
    /\ hashOrder \in {o \in Orders : o[1] = N_A /\ o[2] = N_B}
    /\ inDocker = FALSE
    /\ undeletable \in Refusals
    /\ read = NoRead
    /\ json = NoJson
    /\ loggers = NoLoggers
    /\ last = NoCall
    /\ prev = Summary(NoCall)
    /\ ncalls = 0
    /\ batch = NoBatch

NextRemove ==
    \/ RemoveCall
    \/ RemoveByPatternCall

SpecRemove == InitRemove /\ [][NextRemove]_vars

\* The JSON files: a dictionary is saved with save_json and read back with
\* read_json.
InitJson ==
    /\ fs = EmptyFs
    /\ hashOrder \in {o \in Orders : o[1] = N_A /\ o[2] = N_B}
    /\ inDocker = FALSE
    /\ undeletable = {}
    /\ read = NoRead
    /\ \E d \in JsonDicts : json = [NoJson EXCEPT !.json_dict = d, !.stage = "given"]
    /\ loggers = NoLoggers
    /\ last = NoCall
    /\ prev = Summary(NoCall)
    /\ ncalls = 0
    /\ batch = NoBatch

NextJson ==
    \/ SaveJsonCall
    \/ ReadJsonCall

SpecJson == InitJson /\ [][NextJson]_vars

\* The loggers: calls of init_logger and create_logger on one logger.
InitLog ==
    /\ fs = LogFs
    /\ hashOrder \in {o \in Orders : o[1] = N_A /\ o[2] = N_B}
    /\ inDocker = FALSE
    /\ undeletable = {}
    /\ read = NoRead
    /\ json = NoJson
    /\ \E hs \in GivenHandlers :
          loggers = [NoLoggers EXCEPT !.handlers = hs, !.given = Len(hs),
                                      !.logger.handlers = [i \in 1..Len(hs) |-> i]]
    /\ last = NoCall
    /\ prev = Summary(NoCall)
    /\ ncalls = 0
    /\ batch = NoBatch

NextLog ==
    \/ InitLoggerCall
    \/ CreateLoggerCall

SpecLog == InitLog /\ [][NextLog]_vars

(***************************************************************************)
(* Properties of extract_file                                              *)
(***************************************************************************)
\* the last call is a finished extract_file on a file that existed
ExtractedFile == last.op = "extract_file" /\ IsFile(last.pre, last.src)

\* the archive the last call was given
GivenArchive == last.pre.files[last.src]

ZipNamed(p) == EndsWith(BaseName(p), ZIP)
TarNamed(p) == EndsWith(BaseName(p), TAR) \/ EndsWith(BaseName(p), TAR \o GZ)

\* a readable archive of the container its name announces
WellFormed(p, a) ==
    /\ a.kind = "arch" /\ a.badAt = 0
    /\ (ZipNamed(p) => a.fmt \in ZipFormats)
    /\ (TarNamed(p) => a.fmt \in TarFormats)

\* the members of archive a that belong to the target named entry: for a
\* zip those whose name begins with the entry, for a tar all of them
BelongsTo(a, i, zipped, entry) ==
    zipped => SplitHead(ZipName(a.members[i]), SEP) = entry

\* where member i of a goes: a zip is laid out below the output, a tar
\* below its target directory
PlaceOf(a, i, zipped, output, extr_dir) ==
    IF zipped THEN Join(output, a.members[i].name) ELSE Join(extr_dir, a.members[i].name)

\* directory extr_dir of f exists and holds the members of a for it
TargetHolds(f, a, zipped, output, extr_dir) ==
    /\ IsDir(f, extr_dir)
    /\ \A i \in 1..Len(a.members) :
          BelongsTo(a, i, zipped, BaseName(extr_dir)) =>
             LET q == PlaceOf(a, i, zipped, output, extr_dir)
             IN  IF a.members[i].isdir THEN IsDir(f, q)
                 ELSE IsFile(f, q) /\ f.files[q] = Data(a.members[i].data)

\* directory extr_dir of f holds nothing but members of a for it
TargetHoldsOnly(f, a, zipped, output, extr_dir) ==
    \A q \in DOMAIN f.files :
        (q # extr_dir /\ Under(q, extr_dir)) =>
            \E i \in 1..Len(a.members) :
                /\ BelongsTo(a, i, zipped, BaseName(extr_dir))
                /\ ~a.members[i].isdir
                /\ q = PlaceOf(a, i, zipped, output, extr_dir)

\* C1: after extract_file(archive, output, overwrite=True) returns, every
\* target directory it returns exists and holds the archive's members for
\* that target, also when the directory already existed before the call.
C1_OverwriteExtractsAgain ==
    (ExtractedFile /\ last.status = "ok" /\ last.overwrite /\ WellFormed(last.src, GivenArchive))
    => \A k \in 1..Len(last.paths) :
          TargetHolds(fs, GivenArchive, ZipNamed(last.src), last.dst, last.paths[k])

\* C2: for a zip with N unique top-level entries, extract_file on an empty
\* output returns N target directories, each holding exactly the members
\* whose name begins with that entry, whatever the order of the entries and
\* also when an entry's name occurs inside another member's name.
C2_ZipTargetsHoldTheirMembers ==
    (/\ ExtractedFile /\ last.status = "ok" /\ ZipNamed(last.src)
     /\ WellFormed(last.src, GivenArchive)
     /\ ~Exists(last.pre, last.dst))
    => /\ Len(last.paths)
            = Cardinality({SplitHead(ZipName(GivenArchive.members[i]), SEP) :
                             i \in 1..Len(GivenArchive.members)})
       /\ \A k \in 1..Len(last.paths) :
             /\ TargetHolds(fs, GivenArchive, TRUE, last.dst, last.paths[k])
             /\ TargetHoldsOnly(fs, GivenArchive, TRUE, last.dst, last.paths[k])

\* the last two calls are extract_file without overwrite on the same archive
\* and output, and the first of them returned
ExtractedTwice ==
    /\ last.op = "extract_file" /\ prev.op = "extract_file"
    /\ last.src = prev.src /\ last.dst = prev.dst
    /\ ~last.overwrite /\ ~prev.overwrite
    /\ prev.status = "ok"

\* C3: calling extract_file twice on the same archive and output with
\* overwrite=False is idempotent: the second call leaves the filesystem as it
\* found it and returns the value the first call returned.
C3_SecondExtractIsNoOp ==
    ExtractedTwice
    => /\ last.status = "ok"
       /\ fs = last.pre
       /\ last.single = prev.single
       /\ last.paths = prev.paths

C3_Witness ==
    /\ ExtractedTwice
    /\ IsFile(last.pre, last.src)
    /\ Len(last.paths) = 2
    /\ \A k \in 1..2 : IsDir(fs, last.paths[k])

\* C4: for every tar archive (.tar or .tar.gz), extract_file returns exactly
\* one directory, output/<archive name without extension>, which holds every
\* member of the archive after the call (stated for the calls that find no
\* such directory and so have to extract).
C4_TarExtractsIntoOneDirectory ==
    (/\ ExtractedFile /\ TarNamed(last.src) /\ WellFormed(last.src, GivenArchive)
     /\ ~Exists(last.pre, Join(last.dst, get_filename(last.src))))
    => /\ last.status = "ok"
       /\ last.single
       /\ last.paths = <<Join(last.dst, get_filename(last.src))>>
       /\ TargetHolds(fs, GivenArchive, FALSE, last.dst, last.paths[1])

\* C5: for an input that is not a directory, extract_file fails with the
\* unsupported-format TypeError if and only if the name does not end in .zip,
\* .tar or .tar.gz (a.b.tar.gz is accepted), and on that failure the
\* filesystem is unchanged.
C5_UnsupportedIffOtherSuffix ==
    (last.op = "extract_file" /\ ~IsDir(last.pre, last.src))
    => /\ (last.status = "TypeError" /\ last.cause = "")
            <=> ~(ZipNamed(last.src) \/ TarNamed(last.src))
       /\ (last.status = "TypeError" /\ last.cause = "") => fs = last.pre

\* C6: a malformed archive makes extract_file fail with the corrupt-archive
\* error wrapping the read failure, for zip and tar alike, at opening and at
\* extraction; the library's error never reaches the caller unwrapped.
C6_ReadFailuresAreWrapped ==
    (ExtractedFile /\ (ZipNamed(last.src) \/ TarNamed(last.src)))
    => /\ last.status \notin {"BadZipFile", "ReadError"}
       /\ (~WellFormed(last.src, GivenArchive) /\ last.status # "ok")
             => (last.status = "TypeError" /\ last.cause \in {"BadZipFile", "ReadError"})

(***************************************************************************)
(* Properties of archive and add_to_zip                                    *)
(***************************************************************************)
\* what lies below directory d of f: relative name, kind and content
Tree(f, d) ==
    {<<x, IsDir(f, Join(d, x)),
       IF IsFile(f, Join(d, x)) THEN f.files[Join(d, x)] ELSE Data(0)>> : x \in Below(f, d)}

\* the last two calls are archive, which returned, and extract_file on the
\* archive it returned
RoundTrip ==
    /\ prev.op = "archive" /\ prev.status = "ok"
    /\ last.op = "extract_file" /\ last.src = prev.paths[1]

TarRoundTrip ==
    /\ last.status = "ok"
    /\ last.single
    /\ Len(last.paths) = 1
    /\ Parent(last.paths[1]) = last.dst
    /\ {q \in fs.dirs \cup DOMAIN fs.files : Parent(q) = last.paths[1]}
          = {Join(last.paths[1], BaseName(prev.src))}
    /\ Tree(fs, Join(last.paths[1], BaseName(prev.src))) = Tree(last.pre, prev.src)

C8_ScratchRemoved ==
    last.op \in {"archive", "add_to_zip"}
    => \A t \in last.scratch : ~Exists(fs, t)

\* C9: archive returns the path of the file produced, which exists; a path
\* that already ends with the extension of the format (.zip, .tar, .tar.gz)
\* is the produced file, a path without extension gets the extension added.
C9_ArchivePathReturned ==
    (last.op = "archive" /\ last.status = "ok" /\ last.fmt \in {"zip", "tar", "gztar"})
    => /\ IsFile(fs, last.paths[1])
       /\ EndsWith(last.dst, FormatExt(last.fmt)) => last.paths[1] = last.dst
       /\ Suffix(last.dst) = <<>> => last.paths[1] = last.dst \o FormatExt(last.fmt)

(***************************************************************************)
(* Properties of extract_files                                             *)
(***************************************************************************)
\* the directories extract_file returns for a zip: one per top-level entry
ZipTargets(f, p, output) ==
    {Join(output, SplitHead(ZipName(f.files[p].members[i]), SEP)) :
        i \in 1..Len(f.files[p].members)}

\* whether got is what extract_file returns for input p: p itself when it is
\* a directory, the targets of a zip, one directory of the output for a tar
ResultOf(f, p, output, got) ==
    LET paths == {got.paths[k] : k \in 1..Len(got.paths)}
    IN  IF IsDir(f, p) THEN got.single /\ got.paths = <<p>>
        ELSE IF ZipNamed(p)
        THEN /\ paths = ZipTargets(f, p, output)
             /\ Len(got.paths) = Cardinality(paths)
             /\ got.single <=> Len(got.paths) = 1
        ELSE /\ TarNamed(p)
             /\ got.single
             /\ Len(got.paths) = 1
             /\ Parent(got.paths[1]) = output

\* C10: extract_files handles the archives one after the other in input
\* order and returns one result per archive, result i being that of
\* extract_file on archive i, also for the archives it had nothing to extract.
C10_BatchResultsInOrder ==
    /\ Len(batch.opened) <= Len(batch.archives)
    /\ batch.opened = SubSeq(batch.archives, 1, Len(batch.opened))
    /\ batch.active => (Len(batch.extracts) = batch.i - 1 /\ Len(batch.opened) = batch.i - 1)
    /\ \A i \in 1..Len(batch.extracts) :
          ResultOf(last.pre, batch.archives[i], batch.output, batch.extracts[i])
    /\ batch.status = "ok" => Len(batch.extracts) = Len(batch.archives)

C10_Witness ==
    /\ batch.status = "ok"
    /\ Len(batch.archives) = 2
    /\ batch.extracts[1] # batch.extracts[2]
    /\ ~batch.overwrite
    /\ Len(batch.extracts[2].paths) >= 1
    /\ IsDir(last.pre, batch.extracts[2].paths[1])
    /\ IsFile(last.pre, batch.archives[2])

\* extract_files ended by the exception of one of its extract_file calls
BatchFailed == ~batch.active /\ batch.status \notin {"", "running", "ok"}

\* C11: when extract_file fails on the k-th archive of a batch, extract_files
\* ends with that failure, the archives opened are the first k of the input,
\* and every directory returned for the archives before the k-th is on disk.
C11_FailureAbortsBatch ==
    BatchFailed
    => /\ last.status = batch.status
       /\ Len(batch.opened) = Len(batch.extracts) + 1
       /\ batch.opened = SubSeq(batch.archives, 1, Len(batch.opened))
       /\ \A i \in 1..Len(batch.extracts) :
             \A j \in 1..Len(batch.extracts[i].paths) :
                IsDir(fs, batch.extracts[i].paths[j])

(***************************************************************************)
(* Properties of add_to_zip                                                *)
(***************************************************************************)
\* C12: add_to_zip on a zip path that is no existing file raises
\* FileNotFoundError and leaves the filesystem as it was: no zip is created,
\* no scratch directory made, no input extracted.
C12_MissingZipIsNotFound ==
    (last.op = "add_to_zip" /\ ~IsFile(last.pre, last.src))
    => /\ last.status = "FileNotFoundError"
       /\ last.scratch = {}
       /\ fs = last.pre

C12_Witness ==
    /\ last.op = "add_to_zip"
    /\ ~Exists(last.pre, last.src)
    /\ last.status = "FileNotFoundError"
    /\ \E k \in 1..Len(last.dst) : IsDir(last.pre, last.dst[k])

\* add_to_zip returned: the members the zip held before the call and the
\* members the call added
AddedOk == last.op = "add_to_zip" /\ last.status = "ok"
MembersBefore ==
    LET file == last.pre.files[last.src]
    IN  IF file.kind = "arch" /\ file.fmt = "zip" THEN file.members ELSE <<>>
MembersAfter == fs.files[last.src].members
MembersAdded == SubSeq(MembersAfter, Len(MembersBefore) + 1, Len(MembersAfter))

\* the members expected for folder d of filesystem f: d itself and every
\* directory and file below it, named relative to the parent of d
FolderEntries(f, d) ==
    {Member(BaseName(d), TRUE, 0)}
    \cup {Member(BaseName(d) \o <<SEP>> \o x, IsDir(f, Join(d, x)),
                 IF IsFile(f, Join(d, x)) THEN f.files[Join(d, x)].data ELSE 0) :
             x \in Below(f, d)}

RECURSIVE EntriesCount(_, _, _)
EntriesCount(f, ds, k) ==
    IF k > Len(ds) THEN 0
    ELSE Cardinality(FolderEntries(f, ds[k])) + EntriesCount(f, ds, k + 1)

\* the last two calls are add_to_zip of folders, which returned, and
\* extract_file on the zip it updated
ExtractedAfterAdd ==
    /\ prev.op = "add_to_zip" /\ prev.status = "ok"
    /\ last.op = "extract_file" /\ last.src = prev.src
    /\ \A k \in 1..Len(prev.dst) : IsDir(last.pre, prev.dst[k])

Placed(f, a, i, output) ==
    LET m == a.members[i]
    IN  IF m.isdir THEN IsDir(f, Join(output, m.name))
        ELSE IsFile(f, Join(output, m.name)) /\ f.files[Join(output, m.name)] = Data(m.data)

\* C14: add_to_zip on an existing file keeps every member the zip held, in
\* place and unchanged: the member list before the call is a prefix of the
\* member list after it, whatever the inputs and the outcome; extract_file on
\* the zip updated with folders, into an output that holds nothing, writes
\* every member of the zip, those it held before and those added.
C14_AppendKeepsMembers ==
    /\ (last.op = "add_to_zip" /\ IsFile(last.pre, last.src))
       => /\ IsFile(fs, last.src)
          /\ fs.files[last.src].kind = "arch"
          /\ Len(MembersBefore) <= Len(MembersAfter)
          /\ SubSeq(MembersAfter, 1, Len(MembersBefore)) = MembersBefore
    /\ (ExtractedAfterAdd /\ Below(last.pre, last.dst) = {})
       => /\ last.status = "ok"
          /\ \A i \in 1..Len(last.pre.files[last.src].members) :
                Placed(fs, last.pre.files[last.src], i, last.dst)
          /\ \A k \in 1..Len(prev.dst) :
                Tree(fs, Join(last.dst, BaseName(prev.dst[k]))) = Tree(last.pre, prev.dst[k])

C14_Witness ==
    /\ ExtractedAfterAdd
    /\ Below(last.pre, last.dst) = {}
    /\ Len(prev.dst) = 2 /\ prev.dst[1] = prev.dst[2]
    /\ last.status = "ok"
    /\ IsFile(fs, Join(last.dst, N_B_C))
    /\ IsFile(fs, Join(Join(last.dst, N_F), <<"x">>))

\* p is a readable tar or zip file of filesystem f, named as such
ArchiveInput(f, p) ==
    /\ IsFile(f, p)
    /\ f.files[p].kind = "arch"
    /\ f.files[p].badAt = 0
    /\ \/ f.files[p].fmt = "zip" /\ Suffix(p) = ZIP
       \/ f.files[p].fmt = "tar" /\ Suffix(p) = TAR

\* the name under which member m of archive input p is expected in the zip:
\* its own name for a zip, below the name of the archive for a tar
AddedName(p, m) ==
    IF Suffix(p) = TAR THEN get_filename(p) \o <<SEP>> \o m.name ELSE m.name

\* C15: an add_to_zip call on an existing zip whose inputs are folders and
\* readable archive files (a tar, a zip with one top-level directory, a zip
\* with several top-level directories), one archive at least and none of them
\* the zip itself, completes without error, and every member of every archive
\* input is among the members the zip gained.
C15_ArchiveInputsAreAdded ==
    ( /\ last.op = "add_to_zip"
      /\ IsFile(last.pre, last.src)
      /\ \E k \in 1..Len(last.dst) : ArchiveInput(last.pre, last.dst[k])
      /\ \A k \in 1..Len(last.dst) :
            /\ last.dst[k] # last.src
            /\ ArchiveInput(last.pre, last.dst[k]) \/ IsDir(last.pre, last.dst[k]) )
    => /\ last.status = "ok"
       /\ \A k \in 1..Len(last.dst) :
             ArchiveInput(last.pre, last.dst[k])
             => \A i \in 1..Len(last.pre.files[last.dst[k]].members) :
                   LET m == last.pre.files[last.dst[k]].members[i]
                   IN  \E j \in 1..Len(MembersAdded) :
                          /\ MembersAdded[j].name = AddedName(last.dst[k], m)
                          /\ MembersAdded[j].isdir = m.isdir
                          /\ MembersAdded[j].data = m.data

\* the same for the archives with a single top-level entry: a tar, and a zip
\* with one top-level directory
C15_SingleTopOnly ==
    (last.op = "add_to_zip" /\ \A k \in 1..Len(last.dst) :
        ArchiveInput(last.pre, last.dst[k]) /\ Suffix(last.dst[k]) = ZIP
        => \A i \in 1..Len(last.pre.files[last.dst[k]].members) :
              SplitHead(last.pre.files[last.dst[k]].members[i].name, SEP)
                 = SplitHead(last.pre.files[last.dst[k]].members[1].name, SEP))
    => C15_ArchiveInputsAreAdded

(***************************************************************************)
(* Properties of read_archived_file                                        *)
(***************************************************************************)
ReadCalled == read.status # ""

\* the archive named in the last read_archived_file call is a file that its
\* library opens: a zip named .zip, a tar (compressed or not) named .tar
ReadableArchive ==
    /\ ReadCalled
    /\ IsFile(fs, read.archive_path)
    /\ fs.files[read.archive_path].kind = "arch"
    /\ \/ Suffix(read.archive_path) = ZIP /\ fs.files[read.archive_path].fmt = "zip"
       \/ Suffix(read.archive_path) = TAR /\ fs.files[read.archive_path].fmt \in TarFormats

\* its members and their names as the library lists them
ReadMembers == fs.files[read.archive_path].members
ReadNames ==
    [i \in 1..Len(ReadMembers) |->
        IF Suffix(read.archive_path) = ZIP THEN ZipName(ReadMembers[i])
        ELSE ReadMembers[i].name]

\* name n is matched from its first character on by the pattern: a pattern
\* of plain tokens is a prefix of n, a pattern ".*" + tokens has its tokens
\* somewhere in n
Fits(regex, n) ==
    IF regex[1] = WILD THEN IsSubstr(Tail(regex), n) ELSE StartsWith(n, regex)

SomeFits == \E i \in 1..Len(ReadNames) : Fits(read.regex, ReadNames[i])
FirstFit ==
    CHOOSE i \in 1..Len(ReadNames) :
       /\ Fits(read.regex, ReadNames[i])
       /\ \A j \in 1..(i - 1) : ~Fits(read.regex, ReadNames[j])

\* C16: on a readable archive, read_archived_file returns only when some
\* member name is matched from its first character on by the pattern, and when
\* the first such member in listing order is a file that can be read, the call
\* returns the bytes of that member, whatever other members match later.
C16_FirstMatchIsRead ==
    ReadableArchive
    => /\ read.status = "ok" => SomeFits
       /\ ( /\ SomeFits
            /\ ~ReadMembers[FirstFit].isdir
            /\ fs.files[read.archive_path].badAt # FirstFit )
          => /\ read.status = "ok"
             /\ read.file_str = <<ReadMembers[FirstFit].data>>

\* no two members of the archive bear the same name
DistinctNames ==
    \A i, j \in 1..Len(ReadNames) : ReadNames[i] = ReadNames[j] => i = j

\* the same for the archives whose member names are all different, and for
\* every tar
C16_FirstMatchIsReadDistinct ==
    (ReadableArchive /\ (DistinctNames \/ Suffix(read.archive_path) = TAR))
    => C16_FirstMatchIsRead

\* C17 (as stated): read_archived_file fails with FileNotFoundError exactly
\* when the archive is a readable .zip or .tar and no member name matches the
\* pattern.
C17_NotFoundIffNoMatch ==
    ReadCalled
    => (read.status = "FileNotFoundError" <=> (ReadableArchive /\ ~SomeFits))

\* C17: read_archived_file fails with FileNotFoundError exactly in two cases:
\* the archive is a readable .zip or .tar and no member name matches the
\* pattern (the error then replaces the IndexError of taking the first match),
\* or the path is named .zip or .tar and there is no such file (the error of
\* opening it).  When at least one member name matches, the call does not
\* fail with FileNotFoundError.
C17_NotFoundIffNoMatchOrNoArchive ==
    ReadCalled
    => /\ (read.status = "FileNotFoundError" /\ read.cause = "IndexError")
             <=> (ReadableArchive /\ ~SomeFits)
       /\ (read.status = "FileNotFoundError" /\ read.cause = "")
             <=> (Suffix(read.archive_path) \in {ZIP, TAR} /\ ~Exists(fs, read.archive_path))
       /\ (ReadableArchive /\ SomeFits) => read.status # "FileNotFoundError"

\* a readable archive was searched for a pattern that occurs in the middle of
\* a member name only, and the call failed with FileNotFoundError
C17_Witness ==
    /\ ReadableArchive
    /\ \E i \in 1..Len(ReadNames) : IsSubstr(read.regex, ReadNames[i])
    /\ ~SomeFits
    /\ read.status = "FileNotFoundError"

\* C18: for every path whose suffix is neither .zip nor .tar, the path of a
\* .tar.gz archive included, whether the file is an archive, plain data or
\* does not exist, read_archived_file fails with TypeError, has opened
\* nothing, and the error is the one raised, not a FileNotFoundError made from
\* it.
C18_OtherSuffixIsTypeError ==
    (ReadCalled /\ Suffix(read.archive_path) \notin {ZIP, TAR})
    => /\ read.status = "TypeError"
       /\ read.cause = ""
       /\ ~read.opened
       /\ read.file_str = <<>>

\* a .tar.gz archive holding a member the pattern matches was refused
C18_Witness ==
    /\ ReadCalled
    /\ EndsWith(read.archive_path, TARGZ)
    /\ IsFile(fs, read.archive_path)
    /\ fs.files[read.archive_path].fmt = "gztar"
    /\ SomeFits
    /\ read.status = "TypeError"
    /\ ~read.opened

(***************************************************************************)
(* Properties of the result of extract_file                                *)
(***************************************************************************)
\* C19: when the path given to extract_file is a directory, whatever its name
\* (a directory named like a zip included), the output and the overwrite
\* flag, the call returns that path alone and the filesystem is as it was
\* before the call: nothing was created, removed or written.
C19_DirectoryIsReturned ==
    (last.op = "extract_file" /\ IsDir(last.pre, last.src))
    => /\ last.status = "ok"
       /\ last.single
       /\ last.paths = <<last.src>>
       /\ fs = last.pre

\* the directory named like a zip was given, with overwrite, while the
\* output held directories of an earlier extraction
C19_Witness ==
    /\ last.op = "extract_file"
    /\ last.src = DIR_ZIP
    /\ IsDir(last.pre, last.src)
    /\ last.overwrite
    /\ Below(last.pre, OUT_DIR) # {}
    /\ last.status = "ok"

\* the targets of the archive file given to the last extract_file call: one
\* directory of the output per top-level entry of a zip, one directory of the
\* output for a tar
TargetsOfLast ==
    IF ZipNamed(last.src) THEN ZipTargets(last.pre, last.src, last.dst)
    ELSE {Join(last.dst, get_filename(last.src))}

C20_WitnessEmpty ==
    /\ ExtractedFile
    /\ last.status = "ok"
    /\ ~last.single
    /\ last.paths = <<>>

(***************************************************************************)
(* Properties of remove and remove_by_pattern                              *)
(***************************************************************************)
\* filesystems f and g hold the same entries, with the same content, outside
\* of path p
SameOutside(f, g, p) ==
    /\ {d \in f.dirs : ~Under(d, p)} = {d \in g.dirs : ~Under(d, p)}
    /\ {q \in DOMAIN f.files : ~Under(q, p)} = {q \in DOMAIN g.files : ~Under(q, p)}
    /\ \A q \in DOMAIN f.files : ~Under(q, p) => f.files[q] = g.files[q]

\* the operating system refuses to delete path p of filesystem f or an entry
\* below it
Refused(f, p) == \E u \in undeletable : Exists(f, u) /\ Under(u, p)

\* C23: remove returns normally in every case.  For a path that does not
\* exist it changes nothing, so a second remove after a successful one is a
\* no-op; when the operating system refuses a deletion, the path is still
\* there and nothing outside of it has changed; otherwise the path and all
\* that was below it are gone and nothing else has changed.
C23_RemoveNeverRaises ==
    last.op = "remove"
    => /\ last.status = "ok"
       /\ SameOutside(last.pre, fs, last.src)
       /\ ~Exists(last.pre, last.src) => fs = last.pre
       /\ (Exists(last.pre, last.src) /\ Refused(last.pre, last.src))
             => /\ Exists(fs, last.src)
                /\ \A u \in undeletable : Exists(last.pre, u) => Exists(fs, u)
       /\ (Exists(last.pre, last.src) /\ ~Refused(last.pre, last.src))
             => \A q \in fs.dirs \cup DOMAIN fs.files : ~Under(q, last.src)
       /\ ( /\ prev.op = "remove" /\ prev.src = last.src
            /\ ~Exists(last.pre, last.src) )
             => fs = last.pre

\* the removal of a directory holding an entry that cannot be deleted was
\* refused, and the call returned
C23_Witness ==
    /\ last.op = "remove"
    /\ IsDir(last.pre, last.src)
    /\ \E u \in undeletable : u # last.src /\ Under(u, last.src)
    /\ last.status = "ok"
    /\ IsDir(fs, last.src)

\* a directory was removed with all it held, and removed again
C23_WitnessTwice ==
    /\ prev.op = "remove" /\ prev.src = last.src
    /\ last.op = "remove"
    /\ last.src = W_AB
    /\ ~Exists(last.pre, W_AB_AT)
    /\ fs = last.pre

\* name n is matched as a whole by a wildcard pattern holding one STAR at
\* most: what precedes the STAR starts n and what follows it ends n
WildFits(pattern, n) ==
    IF FirstIndex(pattern, STAR) = 0 THEN n = pattern
    ELSE LET i == FirstIndex(pattern, STAR)
             head == SubSeq(pattern, 1, i - 1)
             tail == SubSeq(pattern, i + 1, Len(pattern))
         IN  /\ Len(head) + Len(tail) <= Len(n)
             /\ StartsWith(n, head)
             /\ EndsWith(n, tail)

\* the pattern of the last remove_by_pattern call: the wildcard pattern
\* alone when no extension (or an empty one) was given, else the pattern,
\* a dot and the extension without its leading dot
PatternOfLast ==
    LET name_with_wildcard == last.dst[1]
        extension == last.dst[2]
    IN  IF extension = <<>> \/ extension[1] = <<>> THEN name_with_wildcard
        ELSE IF extension[1][1] = DOT THEN name_with_wildcard \o extension[1]
        ELSE name_with_wildcard \o <<DOT>> \o extension[1]

\* the names of the entries, files and directories, of the directory given
\* to the last call, before it
EntriesOfLast == {x \in Below(last.pre, last.src) : FirstIndex(x, SEP) = 0}

\* the last remove_by_pattern call returned, removed every entry matching its
\* pattern whose deletion the operating system allows, with all it held,
\* and left the other entries as they were
RemovedByPattern ==
    /\ last.status = "ok"
    /\ \A n \in EntriesOfLast :
          LET q == Join(last.src, n)
          IN  IF WildFits(PatternOfLast, n)
              THEN Refused(last.pre, q)
                   \/ \A r \in fs.dirs \cup DOMAIN fs.files : ~Under(r, q)
              ELSE /\ IsDir(fs, q) <=> IsDir(last.pre, q)
                   /\ IsFile(fs, q) <=> IsFile(last.pre, q)
                   /\ Tree(fs, q) = Tree(last.pre, q)
                   /\ IsFile(fs, q) => fs.files[q] = last.pre.files[q]

\* C24: remove_by_pattern called without an extension removes every entry
\* of the directory, file or directory, whose name matches the wildcard
\* pattern and leaves the others in place; called with an extension, with or
\* without its leading dot, it removes exactly the entries matching
\* pattern + "." + extension.
C24_RemovesMatchingEntries ==
    last.op = "remove_by_pattern" => RemovedByPattern

\* the same for the calls that give an extension, the empty one included
C24_WithExtension ==
    (last.op = "remove_by_pattern" /\ last.dst[2] # <<>>) => RemovedByPattern

(***************************************************************************)
(* Properties of extract_file after a failure and in docker                *)
(***************************************************************************)
\* the last call is extract_file without overwrite on an archive file that
\* its library opens, and the call before it was extract_file on the same
\* archive, which failed
RetriedAfterFailure ==
    /\ prev.op = "extract_file" /\ prev.status \notin {"", "ok"}
    /\ last.op = "extract_file" /\ last.src = prev.src
    /\ ~last.overwrite
    /\ IsFile(last.pre, last.src)
    /\ last.pre.files[last.src].kind = "arch"
    /\ \/ ZipNamed(last.src) /\ last.pre.files[last.src].fmt \in ZipFormats
       \/ TarNamed(last.src) /\ last.pre.files[last.src].fmt \in TarFormats

\* C26: when extract_file is called again, without overwrite, after a call
\* that failed, every target whose directory exists, empty or partially
\* filled as the failed call left it, is skipped: nothing is written below
\* it, and when all the targets exist the call returns them and changes
\* nothing, so that the extraction is not completed.
C26_RetrySkipsLeftTargets ==
    RetriedAfterFailure
    => /\ \A t \in TargetsOfLast :
             IsDir(last.pre, t) => IsDir(fs, t) /\ Tree(fs, t) = Tree(last.pre, t)
       /\ (\A t \in TargetsOfLast : IsDir(last.pre, t))
             => /\ last.status = "ok"
                /\ fs = last.pre
                /\ {last.paths[k] : k \in 1..Len(last.paths)} = TargetsOfLast

\* the failed call left a target directory that lacks a member of the
\* archive, and the second call returned it as extracted
C26_Witness ==
    /\ RetriedAfterFailure
    /\ prev.status = "TypeError" \/ prev.status = "BadZipFile"
    /\ last.status = "ok"
    /\ fs = last.pre
    /\ \E i \in 1..Len(last.pre.files[last.src].members) :
          ~Placed(fs, last.pre.files[last.src], i,
                  IF ZipNamed(last.src) THEN last.dst ELSE last.paths[1])

\* the last extract_file call run again, on the filesystem it found, inside
\* docker and outside of it
InDockerRun == extract_file_in(TRUE, last.pre, last.src, last.dst, last.overwrite)
DirectRun == extract_file_in(FALSE, last.pre, last.src, last.dst, last.overwrite)

\* the two runs end alike, return the same value and leave the same content
\* under the output directory
SameInBothModes ==
    /\ InDockerRun.status = DirectRun.status
    /\ InDockerRun.single = DirectRun.single
    /\ InDockerRun.paths = DirectRun.paths
    /\ IsDir(InDockerRun.fs, last.dst) <=> IsDir(DirectRun.fs, last.dst)
    /\ Tree(InDockerRun.fs, last.dst) = Tree(DirectRun.fs, last.dst)

\* C27: for the same archive, output directory, overwrite flag and initial
\* filesystem, extract_file leaves the same content under the output
\* directory and returns the same value inside docker (extraction into a
\* scratch directory, each target copied back) and outside of it (extraction
\* straight into the output).
C27_DockerAndDirectAgree ==
    last.op = "extract_file" => SameInBothModes

\* the same for the calls that return in both modes
C27_AgreeWhenBothReturn ==
    (last.op = "extract_file" /\ InDockerRun.status = "ok" /\ DirectRun.status = "ok")
    => SameInBothModes

\* the same for the calls that return in both modes on an archive none of
\* whose top-level names occurs inside the name of a member of another
\* top-level entry
C27_AgreeOnSeparateNames ==
    ( /\ last.op = "extract_file"
      /\ InDockerRun.status = "ok" /\ DirectRun.status = "ok"
      /\ IsFile(last.pre, last.src)
      /\ \A i, j \in 1..Len(last.pre.files[last.src].members) :
            LET mi == ZipName(last.pre.files[last.src].members[i])
                mj == ZipName(last.pre.files[last.src].members[j])
            IN  IsSubstr(SplitHead(mi, SEP), mj) => SplitHead(mi, SEP) = SplitHead(mj, SEP) )
    => SameInBothModes

(***************************************************************************)
(* Properties of save_json and read_json                                   *)
(***************************************************************************)
\* the dictionary was saved and read back without error
ReadBack == json.stage = "read" /\ json.status = ""
Given == json.json_dict
Loaded == json.data[1]

\* the value a str is read back as when it is the value of a key
AsRead(val) ==
    IF val.t # "str" THEN val
    ELSE IF IsIsoDate(val.v) THEN date_fromisoformat(val.v)
    ELSE IF IsIsoDatetime(val.v) THEN datetime_fromisoformat(val.v)
    ELSE val

\* C21 (as stated): after save_json then read_json, a date or datetime
\* value of the dictionary is read back equal to itself, a numpy int32/int64
\* as the plain integer of the same value, and an Enum member as its raw
\* value.
C21_RoundTripRawEnum ==
    ReadBack
    => \A i \in 1..Len(Given.v) :
          LET x == Given.v[i][2]
              y == Loaded.v[i][2]
          IN  /\ Loaded.v[i][1] = Given.v[i][1]
              /\ x.t \in {"date", "datetime"} => y = x
              /\ x.t \in {"int64", "int32"} => y = PyInt(x.v)
              /\ x.t = "Enum" => y = x.v

\* C21: after save_json then read_json, a date or datetime value of the
\* dictionary is read back equal to itself, a numpy int32/int64 as the plain
\* integer of the same value, and an Enum member as its raw value, unless the
\* raw value is a string that parses as an ISO date or datetime, which is
\* read back as that date or datetime.
C21_RoundTrip ==
    ReadBack
    => \A i \in 1..Len(Given.v) :
          LET x == Given.v[i][2]
              y == Loaded.v[i][2]
          IN  /\ Loaded.v[i][1] = Given.v[i][1]
              /\ x.t \in {"date", "datetime"} => y = x
              /\ x.t \in {"int64", "int32"} => y = PyInt(x.v)
              /\ (x.t = "Enum" /\ x.v.t \in {"str", "int", "date"}) => y = AsRead(x.v)
              /\ (x.t = "Enum" /\ x.v.t = "str" /\ ~IsIsoDatetime(x.v.v)) => y = x.v

\* a dictionary holding a numpy integer and an Enum member was read back
C21_Witness ==
    /\ ReadBack
    /\ Len(Given.v) = 2
    /\ Given.v[1][2].t = "int64"
    /\ Given.v[2][2].t = "Enum"
    /\ Loaded.v[1][2] = PyInt(7)
    /\ Loaded.v[2][2] = S_PLAIN

\* the document save_json wrote
Document == json.file[1]

\* val is what document doc is read as: the strings that are values of a key
\* are converted, at any depth; keys, integers and the strings of a list are
\* kept
RECURSIVE DecodedAs(_, _, _)
DecodedAs(doc, val, ofKey) ==
    IF doc.t = "str" THEN val = (IF ofKey THEN AsRead(doc) ELSE doc)
    ELSE IF doc.t = "list"
    THEN /\ val.t = "list" /\ Len(val.v) = Len(doc.v)
         /\ \A i \in 1..Len(doc.v) : DecodedAs(doc.v[i], val.v[i], FALSE)
    ELSE IF doc.t = "dict"
    THEN /\ val.t = "dict" /\ Len(val.v) = Len(doc.v)
         /\ \A i \in 1..Len(doc.v) :
               /\ val.v[i][1] = doc.v[i][1]
               /\ DecodedAs(doc.v[i][2], val.v[i][2], TRUE)
    ELSE val = doc

\* C22: read_json turns every string that is the value of a key of an
\* object, at any depth, into a date if it parses as an ISO date, else into
\* a datetime if it parses as an ISO datetime, else leaves it; keys and the
\* other values are returned as they are in the file, so a date-shaped
\* string given to save_json is read back as a date.
C22_StringsOfObjectsAreParsed ==
    ReadBack
    => /\ DecodedAs(Document, Loaded, FALSE)
       /\ \A i \in 1..Len(Given.v) :
             (Given.v[i][2].t = "str" /\ IsIsoDate(Given.v[i][2].v))
             => Loaded.v[i][2] = date_fromisoformat(Given.v[i][2].v)

\* a date-shaped string given to save_json was read back as a date
C22_Witness ==
    /\ ReadBack
    /\ Given.v[1][2] = S_DATE
    /\ Loaded.v[1][2] = D1

\* a datetime string in a nested object was read back as a datetime, and a
\* string that is no date was kept
C22_WitnessNested ==
    /\ ReadBack
    /\ Given.v[1][2].t = "dict"
    /\ \/ /\ Given.v[1][2].v[1][2] = S_DATETIME
          /\ Loaded.v[1][2].v[1][2] = PyDatetime("1999", "12", "31", "10", "00", "11")
       \/ /\ Given.v[1][2].v[1][2] = S_NO_DATE
          /\ Loaded.v[1][2].v[1][2] = S_NO_DATE

\* loaded is what given is read back as, as far as the dates and datetimes
\* that are items of a list are concerned: each is its ISO string
RECURSIVE ListedDatesAreStrings(_, _)
ListedDatesAreStrings(given, loaded) ==
    IF given.t = "list"
    THEN \A i \in 1..Len(given.v) :
            IF given.v[i].t \in {"date", "datetime"}
            THEN loaded.v[i] = PyStr(isoformat(given.v[i]))
            ELSE ListedDatesAreStrings(given.v[i], loaded.v[i])
    ELSE IF given.t = "dict"
    THEN \A i \in 1..Len(given.v) :
            IF given.v[i][2].t \in {"date", "datetime"}
            THEN loaded.v[i][2] = given.v[i][2]
            ELSE ListedDatesAreStrings(given.v[i][2], loaded.v[i][2])
    ELSE TRUE

\* C28: save_json writes a date or datetime as its ISO string wherever it
\* is, and read_json converts back only the values of keys: a date or
\* datetime that is an item of a list, at any depth of lists, is read back
\* as its ISO string, while one that is the value of a key is read back as
\* itself.
C28_DatesInListsStayStrings ==
    ReadBack => ListedDatesAreStrings(Given, Loaded)

\* a date in a list of a list was read back as a string
C28_Witness ==
    /\ ReadBack
    /\ Given.v[1][2] = PyList(<<PyList(<<D1>>)>>)
    /\ Loaded.v[1][2] = PyList(<<PyList(<<S_DATE>>)>>)

(***************************************************************************)
(* Properties of init_logger and create_logger                             *)
(***************************************************************************)
\* the last call on the logger is a create_logger that returned
Created == loggers.call.op = "create_logger" /\ loggers.call.err = ""

\* the handlers of the logger are one stream handler and one file handler,
\* both made by the last call
TwoNewHandlers ==
    /\ Len(loggers.logger.handlers) = 2
    /\ \A i \in 1..2 : loggers.logger.handlers[i] > loggers.call.created
    /\ loggers.handlers[loggers.logger.handlers[1]].kind = "stream"
    /\ loggers.handlers[loggers.logger.handlers[2]].kind = "file"

\* C25: after create_logger returns, the handlers of the logger are exactly
\* one new stream handler and one new file handler, whatever handlers it had
\* before: two handlers after init_logger then create_logger, and still two
\* after create_logger is called again.
C25_TwoHandlersAfterCreate ==
    Created => TwoNewHandlers

\* after create_logger returns on a logger that had at most one handler, the
\* handlers of the logger are one new stream handler and one new file handler
C25_AfterAtMostOneHandler ==
    (Created /\ Len(loggers.call.before.handlers) <= 1) => TwoNewHandlers

\* create_logger returned on a logger that init_logger had given its handler
C25_Witness ==
    /\ Created
    /\ loggers.history = <<"init_logger", "create_logger">>
    /\ TwoNewHandlers

\* create_logger returned a second time and left three handlers
C25_WitnessThree ==
    /\ Created
    /\ loggers.history = <<"create_logger", "create_logger">>
    /\ Len(loggers.logger.handlers) = 3

\* the last call on the logger is an init_logger
Initialized == loggers.call.op = "init_logger"

\* only init_logger was called, on a logger that was new
OnlyInitialized ==
    /\ loggers.given = 0
    /\ loggers.history # <<>>
    /\ \A i \in 1..Len(loggers.history) : loggers.history[i] = "init_logger"

\* C29: init_logger sets the level of the logger to log_lvl; on a logger
\* without handler it adds exactly one stream handler with the given level
\* and format; on a logger with handlers it adds none, keeps the list and
\* sets the level and the formatter of the first handler only; so a new
\* logger has exactly one handler after any number of init_logger calls.
C29_InitNeverGrowsHandlers ==
    /\ Initialized =>
          LET before == loggers.call.before.handlers
              now == loggers.logger.handlers
              given == Handler("stream", loggers.call.log_lvl, loggers.call.log_format)
          IN  /\ loggers.logger.level = loggers.call.log_lvl
              /\ \A h \in 1..Len(loggers.was) :
                    (before = <<>> \/ h # before[1]) => loggers.handlers[h] = loggers.was[h]
              /\ before = <<>> =>
                    /\ Len(now) = 1
                    /\ now[1] = loggers.call.created + 1
                    /\ Len(loggers.handlers) = loggers.call.created + 1
                    /\ loggers.handlers[now[1]] = given
              /\ before # <<>> =>
                    /\ now = before
                    /\ Len(loggers.handlers) = loggers.call.created
                    /\ loggers.handlers[now[1]] = [loggers.was[now[1]] EXCEPT
                                                      !.level = given.level,
                                                      !.formatter = given.formatter]
    /\ OnlyInitialized => Len(loggers.logger.handlers) = 1

\* init_logger was called a second time on a new logger, with another level
C29_Witness ==
    /\ OnlyInitialized
    /\ Len(loggers.history) = 2
    /\ loggers.was[1].level # loggers.call.log_lvl
    /\ loggers.handlers = <<Handler("stream", loggers.call.log_lvl, loggers.call.log_format)>>

\* init_logger was called on a logger with two handlers
C29_WitnessTwo ==
    /\ Initialized
    /\ Len(loggers.call.before.handlers) = 2
    /\ Len(loggers.logger.handlers) = 2
    /\ loggers.handlers[loggers.logger.handlers[2]] = loggers.was[loggers.logger.handlers[2]]

====
